---- MODULE Spec2Model ----
(***************************************************************************)
(* Model of the rich-text document model (document-model.ts, types.ts).    *)
(*                                                                         *)
(* A document is a record [spans, align, verticalAlign, padding,           *)
(* listItems].  A span is [text, style]; text is a sequence of one-letter  *)
(* strings.  Span ids (generateSpanId: time + random) are not modelled.    *)
(* A style keeps the four fields the toggle operations read and write;    *)
(* fontWeight is one of "normal", "bold", "700" (the number 700).          *)
(* A Partial<TextStyle> is a function from a subset of the field names;    *)
(* an absent style argument is the function with the empty domain.        *)
(* Array indices and offsets are 0-based as in the source; sequences are   *)
(* 1-based, so a[i] of the source is a[i + 1] here.                        *)
(*                                                                         *)
(* cloneDocument is about object identity, which the records above do not  *)
(* have: for it, heap holds a document as objects with addresses.          *)
(*                                                                         *)
(* layout is the LayoutResult the widget keeps (layout-engine.ts).  Lengths *)
(* are whole multiples of 1/Unit pixel, so that the halves and the shares   *)
(* of a line's slack the code computes are exact.                           *)
(***************************************************************************)
EXTENDS Integers, Sequences, FiniteSets, TLC

VARIABLES doc, call, budget, heap, layout, measurementCache, widgetSelection, history, historyIndex

vars == <<doc, call, budget, heap, layout, measurementCache, widgetSelection, history, historyIndex>>

\* What the widget keeps besides its document and its layout.
widget == <<widgetSelection, history, historyIndex>>

\* Longest text of a generated document.
MaxLen == 3
\* Number of operations applied in a row to a factory-made document.
MaxOps == 2
\* Highest line index used as an argument of the list operations.
MaxLine == 2

Min(a, b) == IF a <= b THEN a ELSE b
Max(a, b) == IF a >= b THEN a ELSE b

\* ------------------------------------------------------------------------
\* JavaScript primitives
\* ------------------------------------------------------------------------

\* Array.prototype.slice / String.prototype.slice index: a negative index
\* counts from the end, every index is clamped to [0, length].
RelIndex(k, len) == IF k < 0 THEN Max(len + k, 0) ELSE Min(k, len)

\* seq.slice(a, b)
JsSlice(seq, a, b) ==
  SubSeq(seq, RelIndex(a, Len(seq)) + 1, RelIndex(b, Len(seq)))

\* seq.slice(a)
JsSliceFrom(seq, a) == JsSlice(seq, a, Len(seq))

\* { ...a, ...b } on styles: b's fields override a's.
Spread(a, b) ==
  [k \in DOMAIN a \cup DOMAIN b |-> IF k \in DOMAIN b THEN b[k] ELSE a[k]]

\* The same object as a TextStyle record.
AsStyle(s) ==
  [fontWeight |-> s["fontWeight"], fontStyle |-> s["fontStyle"],
   underline |-> s["underline"], strikethrough |-> s["strikethrough"]]

\* No style argument.
NoStyle == [k \in {} |-> TRUE]

\* ------------------------------------------------------------------------
\* types.ts
\* ------------------------------------------------------------------------

DEFAULT_STYLE ==
  [fontWeight |-> "normal", fontStyle |-> "normal",
   underline |-> FALSE, strikethrough |-> FALSE]

NoListItems == [k \in {} |-> TRUE]

createEmptyDocument ==
  [spans |-> << [text |-> <<>>, style |-> DEFAULT_STYLE] >>,
   align |-> "left", verticalAlign |-> "top", padding |-> 8,
   listItems |-> NoListItems]

createDocument(text, style) ==
  [spans |-> << [text |-> text, style |-> AsStyle(Spread(DEFAULT_STYLE, style))] >>,
   align |-> "left", verticalAlign |-> "top", padding |-> 8,
   listItems |-> NoListItems]

\* ------------------------------------------------------------------------
\* document-model.ts: reading a document
\* ------------------------------------------------------------------------

RECURSIVE FlattenFrom(_, _, _)
FlattenFrom(spans, i, absoluteIndex) ==
  IF i > Len(spans) THEN <<>>
  ELSE [j \in 1..Len(spans[i].text) |->
          [char |-> spans[i].text[j], style |-> spans[i].style,
           absoluteIndex |-> absoluteIndex + j - 1]]
       \o FlattenFrom(spans, i + 1, absoluteIndex + Len(spans[i].text))

flattenDocument(d) == FlattenFrom(d.spans, 1, 0)

RECURSIVE SumLengths(_, _)
SumLengths(spans, i) ==
  IF i > Len(spans) THEN 0 ELSE Len(spans[i].text) + SumLengths(spans, i + 1)

getDocumentLength(d) == SumLengths(d.spans, 1)

\* The for loop of absoluteToSpanPosition, from span i (0-based) on.
RECURSIVE SpanPositionLoop(_, _, _)
SpanPositionLoop(spans, i, remaining) ==
  IF i >= Len(spans)
  THEN [spanIndex |-> Len(spans) - 1, charOffset |-> Len(spans[Len(spans)].text)]
  ELSE IF remaining <= Len(spans[i + 1].text)
       THEN [spanIndex |-> i, charOffset |-> remaining]
       ELSE SpanPositionLoop(spans, i + 1, remaining - Len(spans[i + 1].text))

absoluteToSpanPosition(d, absolutePos) ==
  IF Len(d.spans) = 0
  THEN [spanIndex |-> 0, charOffset |-> 0]
  ELSE SpanPositionLoop(d.spans, 0, absolutePos)

\* getStyleAtPosition without the look at the following span.
getStyleAtPositionOwnSpan(d, pos) ==
  IF Len(d.spans) = 0 THEN DEFAULT_STYLE
  ELSE d.spans[absoluteToSpanPosition(d, pos).spanIndex + 1].style

getStyleAtPosition(d, pos) ==
  IF Len(d.spans) = 0 THEN DEFAULT_STYLE
  ELSE LET sp == absoluteToSpanPosition(d, pos)
           span == d.spans[sp.spanIndex + 1]
       IN  IF sp.charOffset = Len(span.text) /\ sp.spanIndex < Len(d.spans) - 1
           THEN d.spans[sp.spanIndex + 2].style
           ELSE span.style

\* getSelectedText with the selection's last character left out.
getSelectedTextShort(d, selection) ==
  LET start == Min(selection.anchor, selection.focus)
      end == Max(selection.anchor, selection.focus)
      picked == JsSlice(flattenDocument(d), start, end - 1)
  IN  [i \in 1..Len(picked) |-> picked[i].char]

getSelectedText(d, selection) ==
  LET start == Min(selection.anchor, selection.focus)
      end == Max(selection.anchor, selection.focus)
      chars == flattenDocument(d)
      picked == JsSlice(chars, start, end)
  IN  [i \in 1..Len(picked) |-> picked[i].char]

\* ------------------------------------------------------------------------
\* document-model.ts: building spans
\* ------------------------------------------------------------------------

stylesEqual(a, b) ==
  /\ a.fontWeight = b.fontWeight
  /\ a.fontStyle = b.fontStyle
  /\ a.underline = b.underline
  /\ a.strikethrough = b.strikethrough

\* The merge loop of normalizeSpans from spans[i] (0-based) on.
RECURSIVE MergeLoop(_, _, _, _)
MergeLoop(spans, i, normalized, current) ==
  IF i >= Len(spans) THEN Append(normalized, current)
  ELSE LET next == spans[i + 1]
       IN  IF stylesEqual(current.style, next.style)
           THEN MergeLoop(spans, i + 1, normalized,
                          [current EXCEPT !.text = current.text \o next.text])
           ELSE MergeLoop(spans, i + 1, Append(normalized, current), next)

\* normalizeSpans without the merge of equal neighbours.
normalizeSpansNoMerge(spans) ==
  IF Len(spans) = 0
  THEN << [text |-> <<>>, style |-> DEFAULT_STYLE] >>
  ELSE LET nonEmpty == SelectSeq(spans, LAMBDA s : Len(s.text) > 0)
       IN  IF Len(nonEmpty) = 0 THEN << spans[1] >> ELSE nonEmpty

normalizeSpans(spans) ==
  IF Len(spans) = 0
  THEN << [text |-> <<>>, style |-> DEFAULT_STYLE] >>
  ELSE LET normalized == MergeLoop(spans, 1, <<>>, spans[1])
           nonEmpty == SelectSeq(normalized, LAMBDA s : Len(s.text) > 0)
       IN  IF Len(nonEmpty) = 0 THEN << normalized[1] >> ELSE nonEmpty

\* The grouping loop of rebuildDocumentFromChars from chars[i] (0-based) on;
\* current is <<>> for null, else the one-element sequence <<currentSpan>>.
RECURSIVE GroupLoop(_, _, _, _)
GroupLoop(chars, i, spans, current) ==
  IF i >= Len(chars) THEN spans \o current
  ELSE LET char == chars[i + 1]
       IN  IF Len(current) = 0 \/ ~stylesEqual(current[1].style, char.style)
           THEN GroupLoop(chars, i + 1, spans \o current,
                          << [text |-> << char.char >>, style |-> char.style] >>)
           ELSE GroupLoop(chars, i + 1, spans,
                          << [current[1] EXCEPT !.text = Append(@, char.char)] >>)

rebuildDocumentFromChars(originalDoc, chars) ==
  IF Len(chars) = 0
  THEN [originalDoc EXCEPT !.spans =
          << [text |-> <<>>,
              style |-> IF Len(originalDoc.spans) > 0
                        THEN originalDoc.spans[1].style
                        ELSE DEFAULT_STYLE] >>]
  ELSE [originalDoc EXCEPT !.spans = normalizeSpans(GroupLoop(chars, 0, <<>>, <<>>))]

\* ------------------------------------------------------------------------
\* document-model.ts: editing operations.  A call yields
\*   threw  TRUE when the call ends in a TypeError instead of returning
\*   doc    the returned document
\*   input  the argument document as it is after the call
\* ------------------------------------------------------------------------

Returned(result, d) == [threw |-> FALSE, doc |-> result, input |-> d]
Thrown(d) == [threw |-> TRUE, doc |-> d, input |-> d]

\* insertText line 141: newSpans = [...doc.spans] is a new array, so the
\* assignment at line 165 and the splice at line 200 do not write to doc.spans.
NewSpansIsAlias == FALSE
NewSpansIsCopy == TRUE

\* InsertNewSpans with the style argument laid over the default style
\* instead of the current span's style.
InsertNewSpansDefaultStyle(d, pos, text, style) ==
  LET sp == absoluteToSpanPosition(d, pos)
      currentSpan == d.spans[sp.spanIndex + 1]
      beforeText == JsSlice(currentSpan.text, 0, sp.charOffset)
      afterText == JsSliceFrom(currentSpan.text, sp.charOffset)
  IN  SubSeq(d.spans, 1, sp.spanIndex)
      \o (IF Len(beforeText) > 0 THEN << [currentSpan EXCEPT !.text = beforeText] >> ELSE <<>>)
      \o << [text |-> text, style |-> AsStyle(Spread(DEFAULT_STYLE, style))] >>
      \o (IF Len(afterText) > 0
          THEN << [text |-> afterText, style |-> currentSpan.style] >> ELSE <<>>)
      \o SubSeq(d.spans, sp.spanIndex + 2, Len(d.spans))

\* newSpans of insertText before normalizeSpans (lines 140-201).
InsertNewSpans(d, pos, text, style) ==
  LET sp == absoluteToSpanPosition(d, pos)
      spanIndex == sp.spanIndex
      charOffset == sp.charOffset
      currentSpan == d.spans[spanIndex + 1]
      insertStyle == AsStyle(Spread(currentSpan.style, style))
      stylesMatch == \A key \in DOMAIN style : insertStyle[key] = currentSpan.style[key]
      beforeText == JsSlice(currentSpan.text, 0, charOffset)
      afterText == JsSliceFrom(currentSpan.text, charOffset)
      newSpansArray ==
        (IF Len(beforeText) > 0 THEN << [currentSpan EXCEPT !.text = beforeText] >> ELSE <<>>)
        \o << [text |-> text, style |-> insertStyle] >>
        \o (IF Len(afterText) > 0
            THEN << [text |-> afterText, style |-> currentSpan.style] >> ELSE <<>>)
  IN  IF stylesMatch
      THEN [d.spans EXCEPT ![spanIndex + 1].text = beforeText \o text \o afterText]
      ELSE SubSeq(d.spans, 1, spanIndex) \o newSpansArray
           \o SubSeq(d.spans, spanIndex + 2, Len(d.spans))

insertText(d, pos, text, style) ==
  IF Len(text) = 0 THEN Returned(d, d)
  ELSE IF Len(d.spans) = 0
       THEN Returned([d EXCEPT !.spans =
                        << [text |-> text, style |-> AsStyle(Spread(DEFAULT_STYLE, style))] >>], d)
       ELSE LET newSpans == InsertNewSpans(d, pos, text, style)
            IN  Returned([d EXCEPT !.spans = normalizeSpans(newSpans)],
                         IF NewSpansIsCopy THEN d ELSE [d EXCEPT !.spans = newSpans])

deleteRange(d, start, end) ==
  IF start >= end THEN Returned(d, d)
  ELSE LET chars == flattenDocument(d)
           newChars == JsSlice(chars, 0, start) \o JsSliceFrom(chars, end)
       IN  Returned(rebuildDocumentFromChars(d, newChars), d)

\* The for loop of applyStyleToRange from index i on; chars[i] with i < 0 is
\* undefined, and reading chars[i].style then raises a TypeError.
RECURSIVE ApplyStyleLoop(_, _, _, _)
ApplyStyleLoop(chars, i, end, style) ==
  IF ~(i < end /\ i < Len(chars)) THEN [threw |-> FALSE, chars |-> chars]
  ELSE IF i < 0 THEN [threw |-> TRUE, chars |-> chars]
  ELSE ApplyStyleLoop([chars EXCEPT ![i + 1].style = AsStyle(Spread(@, style))],
                      i + 1, end, style)

applyStyleToRange(d, start, end, style) ==
  IF start >= end THEN Returned(d, d)
  ELSE LET loop == ApplyStyleLoop(flattenDocument(d), start, end, style)
       IN  IF loop.threw THEN Thrown(d)
           ELSE Returned(rebuildDocumentFromChars(d, loop.chars), d)

\* The tests the three toggles make on one character's style.
HasProperty(style, property) ==
  CASE property = "bold" -> style.fontWeight = "bold" \/ style.fontWeight = "700"
    [] property = "italic" -> style.fontStyle = "italic"
    [] OTHER -> style[property]

\* The scanning loop of the toggles from index i on: "all", "notAll" (break),
\* or "throw" when chars[i] is undefined and its style is read.
RECURSIVE AllHaveLoop(_, _, _, _)
AllHaveLoop(chars, i, end, property) ==
  IF ~(i < end /\ i < Len(chars)) THEN "all"
  ELSE IF i < 0 THEN "throw"
  ELSE IF ~HasProperty(chars[i + 1].style, property) THEN "notAll"
  ELSE AllHaveLoop(chars, i + 1, end, property)

toggleStyleInRange(d, start, end, property) ==
  IF start >= end THEN Returned(d, d)
  ELSE LET scan == AllHaveLoop(flattenDocument(d), start, end, property)
           newValue == ~(scan = "all")
       IN  IF scan = "throw" THEN Thrown(d)
           ELSE applyStyleToRange(d, start, end, [k \in {property} |-> newValue])

toggleBoldInRange(d, start, end) ==
  IF start >= end THEN Returned(d, d)
  ELSE LET scan == AllHaveLoop(flattenDocument(d), start, end, "bold")
           newWeight == IF scan = "all" THEN "normal" ELSE "bold"
       IN  IF scan = "throw" THEN Thrown(d)
           ELSE applyStyleToRange(d, start, end, [fontWeight |-> newWeight])

toggleItalicInRange(d, start, end) ==
  IF start >= end THEN Returned(d, d)
  ELSE LET scan == AllHaveLoop(flattenDocument(d), start, end, "italic")
           newStyle == IF scan = "all" THEN "normal" ELSE "italic"
       IN  IF scan = "throw" THEN Thrown(d)
           ELSE applyStyleToRange(d, start, end, [fontStyle |-> newStyle])

\* The result also carries newPosition.  deleteRange returns its argument
\* itself when start >= end, and only then does insertText work on the input.
\* replaceSelection inserting at the end of the selection.
replaceSelectionAtEnd(d, selection, newText, style) ==
  LET start == Min(selection.anchor, selection.focus)
      end == Max(selection.anchor, selection.focus)
      deleted == deleteRange(d, start, end).doc
      inserted == insertText(deleted, end, newText, style)
  IN  [threw |-> FALSE,
       doc |-> IF Len(newText) > 0 THEN inserted.doc ELSE deleted,
       input |-> d,
       newPosition |-> start + Len(newText)]

replaceSelection(d, selection, newText, style) ==
  LET start == Min(selection.anchor, selection.focus)
      end == Max(selection.anchor, selection.focus)
      deleted == deleteRange(d, start, end).doc
      inserted == insertText(deleted, start, newText, style)
  IN  [threw |-> FALSE,
       doc |-> IF Len(newText) > 0 THEN inserted.doc ELSE deleted,
       input |-> IF Len(newText) > 0 /\ start >= end THEN inserted.input ELSE d,
       newPosition |-> start + Len(newText)]

\* ------------------------------------------------------------------------
\* document-model.ts: list operations.  listItems is a function from the
\* line indices that are list items to [type, level, index].
\* ------------------------------------------------------------------------

MapSet(m, k, v) == [x \in DOMAIN m \cup {k} |-> IF x = k THEN v ELSE m[x]]
MapDelete(m, k) == [x \in DOMAIN m \ {k} |-> m[x]]
MapHas(m, k) == k \in DOMAIN m

\* new Map(doc.listItems) is a new map, so set and delete on it do not write
\* to doc.listItems.
NewMapIsAlias == FALSE
NewMapIsCopy == TRUE

ListResult(d, newListItems) ==
  [threw |-> FALSE,
   doc |-> [d EXCEPT !.listItems = newListItems],
   input |-> IF NewMapIsCopy THEN d ELSE [d EXCEPT !.listItems = newListItems]]

\* toggleListForLines lines 590-597: the numbered items that follow endLine.
RECURSIVE RenumberFollowing(_, _, _)
RenumberFollowing(m, i, idx) ==
  IF ~MapHas(m, i) \/ m[i].type # "number" THEN m
  ELSE RenumberFollowing(MapSet(m, i, [m[i] EXCEPT !.index = idx]), i + 1, idx + 1)

toggleListForLines(d, startLine, endLine, listType) ==
  LET old == d.listItems
      lines == startLine..endLine
      allHaveType == \A i \in lines : MapHas(old, i) /\ old[i].type = listType
      numberIndex ==
        IF listType = "number" /\ startLine > 0 /\ MapHas(old, startLine - 1)
           /\ old[startLine - 1].type = "number"
        THEN old[startLine - 1].index + 1
        ELSE 1
      applied ==
        [x \in DOMAIN old \cup lines |->
           IF x \in lines
           THEN [type |-> listType, level |-> 0,
                 index |-> IF listType = "number" THEN numberIndex + (x - startLine) ELSE 0]
           ELSE old[x]]
  IN  IF allHaveType
      THEN ListResult(d, [x \in DOMAIN old \ lines |-> old[x]])
      ELSE IF listType = "number"
           THEN ListResult(d, RenumberFollowing(applied, endLine + 1,
                                                numberIndex + Cardinality(lines)))
           ELSE ListResult(d, applied)

MaxListLevel == 5

indentListItem(d, lineIndex) ==
  IF ~MapHas(d.listItems, lineIndex) THEN Returned(d, d)
  ELSE LET item == d.listItems[lineIndex]
       IN  ListResult(d, MapSet(d.listItems, lineIndex,
                                [item EXCEPT !.level = Min(item.level + 1, MaxListLevel)]))

outdentListItem(d, lineIndex) ==
  IF ~MapHas(d.listItems, lineIndex) THEN Returned(d, d)
  ELSE LET item == d.listItems[lineIndex]
       IN  IF item.level = 0
           THEN ListResult(d, MapDelete(d.listItems, lineIndex))
           ELSE ListResult(d, MapSet(d.listItems, lineIndex,
                                     [item EXCEPT !.level = item.level - 1]))

\* The new map starts empty: nothing is shared with doc.listItems.
\* removeListItemAtLine deleting the entry and leaving the later ones where
\* they are.
removeListItemAtLineNoShift(d, lineIndex) ==
  Returned([d EXCEPT !.listItems = MapDelete(d.listItems, lineIndex)], d)

removeListItemAtLine(d, lineIndex) ==
  LET old == d.listItems
      kept == {idx \in DOMAIN old : idx < lineIndex}
      shifted == {idx - 1 : idx \in {j \in DOMAIN old : j > lineIndex}}
  IN  Returned([d EXCEPT !.listItems =
                  [x \in kept \cup shifted |-> IF x \in shifted THEN old[x + 1] ELSE old[x]]],
               d)

\* Array.from(keys).sort((a, b) => a - b)
RECURSIVE SortedLines(_)
SortedLines(S) ==
  IF S = {} THEN <<>>
  ELSE LET lo == CHOOSE x \in S : \A y \in S : x <= y
       IN  << lo >> \o SortedLines(S \ {lo})

\* The loop of renumberLists with one counter shared by all levels.
RECURSIVE RenumberLoopOneCounter(_, _, _, _)
RenumberLoopOneCounter(m, sortedLines, k, levelCounters) ==
  IF k >= Len(sortedLines) THEN m
  ELSE LET lineIdx == sortedLines[k + 1]
           item == m[lineIdx]
       IN  IF item.type # "number"
           THEN RenumberLoopOneCounter(m, sortedLines, k + 1, NoListItems)
           ELSE LET currentCount == IF MapHas(levelCounters, 0) THEN levelCounters[0] ELSE 0
                    newCount == currentCount + 1
                IN  RenumberLoopOneCounter(MapSet(m, lineIdx, [item EXCEPT !.index = newCount]),
                                           sortedLines, k + 1,
                                           MapSet(levelCounters, 0, newCount))

\* The loop of renumberLists with a level's count starting at the index its
\* first item already holds.
RECURSIVE RenumberLoopFromFirstIndex(_, _, _, _)
RenumberLoopFromFirstIndex(m, sortedLines, k, levelCounters) ==
  IF k >= Len(sortedLines) THEN m
  ELSE LET lineIdx == sortedLines[k + 1]
           item == m[lineIdx]
       IN  IF item.type # "number"
           THEN RenumberLoopFromFirstIndex(m, sortedLines, k + 1, NoListItems)
           ELSE LET newCount == IF MapHas(levelCounters, item.level)
                                THEN levelCounters[item.level] + 1 ELSE item.index
                    counted == MapSet(levelCounters, item.level, newCount)
                    pruned == [l \in {x \in DOMAIN counted : ~(x > item.level)} |-> counted[l]]
                IN  RenumberLoopFromFirstIndex(MapSet(m, lineIdx, [item EXCEPT !.index = newCount]),
                                               sortedLines, k + 1, pruned)

\* The loop of renumberLists counting and numbering bullet items as well.
RECURSIVE RenumberLoopAllItems(_, _, _, _)
RenumberLoopAllItems(m, sortedLines, k, levelCounters) ==
  IF k >= Len(sortedLines) THEN m
  ELSE LET lineIdx == sortedLines[k + 1]
           item == m[lineIdx]
           currentCount == IF MapHas(levelCounters, item.level)
                           THEN levelCounters[item.level] ELSE 0
           newCount == currentCount + 1
           counted == MapSet(levelCounters, item.level, newCount)
           pruned == [l \in {x \in DOMAIN counted : ~(x > item.level)} |-> counted[l]]
       IN  RenumberLoopAllItems(MapSet(m, lineIdx, [item EXCEPT !.index = newCount]),
                                sortedLines, k + 1, pruned)

\* The for loop of renumberLists from sortedLines[k] (0-based) on.
RECURSIVE RenumberLoop(_, _, _, _)
RenumberLoop(m, sortedLines, k, levelCounters) ==
  IF k >= Len(sortedLines) THEN m
  ELSE LET lineIdx == sortedLines[k + 1]
           item == m[lineIdx]
       IN  IF item.type # "number"
           THEN RenumberLoop(m, sortedLines, k + 1, NoListItems)
           ELSE LET currentCount == IF MapHas(levelCounters, item.level)
                                    THEN levelCounters[item.level] ELSE 0
                    newCount == currentCount + 1
                    counted == MapSet(levelCounters, item.level, newCount)
                    pruned == [l \in {x \in DOMAIN counted : ~(x > item.level)} |-> counted[l]]
                IN  RenumberLoop(IF item.index # newCount
                                 THEN MapSet(m, lineIdx, [item EXCEPT !.index = newCount])
                                 ELSE m,
                                 sortedLines, k + 1, pruned)

renumberLists(d) ==
  ListResult(d, RenumberLoop(d.listItems, SortedLines(DOMAIN d.listItems), 0, NoListItems))

\* ------------------------------------------------------------------------
\* A caller holding one document: it calls an operation on the document it
\* holds (call records the call) and then takes the returned document as
\* the one it holds.
\* ------------------------------------------------------------------------

\* Texts
Texts == {<<>>, << "a" >>, << "b", "a" >>}

\* text[i] of the factory texts: "a", "b", "a", ...
PatternText(n) == [i \in 1..n |-> IF i % 2 = 1 THEN "a" ELSE "b"]
InitTexts == {PatternText(n) : n \in 0..MaxLen}

\* Style arguments of createDocument, insertText and replaceSelection.
StyleArgs ==
  {NoStyle, [fontWeight |-> "bold"], [fontStyle |-> "italic", underline |-> TRUE]}

\* Style arguments of applyStyleToRange.
PartialStyles ==
  {[fontWeight |-> "700"], [fontStyle |-> "normal", underline |-> FALSE]}

ToggleProperties == {"underline", "strikethrough"}
ListTypes == {"bullet", "number"}
Lines == 0..MaxLine

\* Offsets from one before the start to one past the end.
Offsets(d) == (0 - 1)..(getDocumentLength(d) + 1)

NoArgs ==
  [pos |-> 0, end |-> 0, text |-> <<>>, style |-> NoStyle, property |-> ""]

NoCall ==
  [op |-> "none", args |-> NoArgs, input |-> createEmptyDocument, threw |-> FALSE,
   out |-> createEmptyDocument, inputAfter |-> createEmptyDocument, val |-> 0]

\* No object is allocated.
NoHeap == [objects |-> <<>>, before |-> <<>>, original |-> 0, clone |-> 0]

\* No layout has been computed.
NoLayout == [lines |-> <<>>, width |-> 0, height |-> 0, chars |-> <<>>]

\* The measurement cache is empty.
NoCache == [key \in {} |-> 0]

\* No widget: no selection and no history are kept.
NoWidget ==
  /\ widgetSelection = [anchor |-> 0, focus |-> 0]
  /\ history = <<>>
  /\ historyIndex = 0 - 1

\* An operation that returns a document.
Invoke(op, args, res, val) ==
  /\ call.op = "none"
  /\ budget > 0
  /\ call' = [op |-> op, args |-> args, input |-> doc, threw |-> res.threw,
              out |-> res.doc, inputAfter |-> res.input, val |-> val]
  /\ budget' = budget - 1
  /\ UNCHANGED <<doc, heap, layout, measurementCache, widget>>

\* A query: it returns val and writes nothing.
Query(op, args, val) == Invoke(op, args, Returned(doc, doc), val)

InsertText ==
  \E pos \in Offsets(doc), text \in Texts, style \in StyleArgs :
    Invoke("insertText", [NoArgs EXCEPT !.pos = pos, !.text = text, !.style = style],
           insertText(doc, pos, text, style), 0)

DeleteRange ==
  \E start \in Offsets(doc), end \in Offsets(doc) :
    Invoke("deleteRange", [NoArgs EXCEPT !.pos = start, !.end = end],
           deleteRange(doc, start, end), 0)

ApplyStyleToRange ==
  \E start \in Offsets(doc), end \in Offsets(doc), style \in PartialStyles :
    Invoke("applyStyleToRange", [NoArgs EXCEPT !.pos = start, !.end = end, !.style = style],
           applyStyleToRange(doc, start, end, style), 0)

ToggleBoldInRange ==
  \E start \in Offsets(doc), end \in Offsets(doc) :
    Invoke("toggleBoldInRange", [NoArgs EXCEPT !.pos = start, !.end = end, !.property = "bold"],
           toggleBoldInRange(doc, start, end), 0)

ToggleItalicInRange ==
  \E start \in Offsets(doc), end \in Offsets(doc) :
    Invoke("toggleItalicInRange",
           [NoArgs EXCEPT !.pos = start, !.end = end, !.property = "italic"],
           toggleItalicInRange(doc, start, end), 0)

ToggleStyleInRange ==
  \E start \in Offsets(doc), end \in Offsets(doc), property \in ToggleProperties :
    Invoke("toggleStyleInRange",
           [NoArgs EXCEPT !.pos = start, !.end = end, !.property = property],
           toggleStyleInRange(doc, start, end, property), 0)

\* pos is the anchor and end the focus; both lie in [0, length].
ReplaceSelection ==
  \E anchor \in 0..getDocumentLength(doc), focus \in 0..getDocumentLength(doc),
     text \in Texts, style \in StyleArgs :
    LET res == replaceSelection(doc, [anchor |-> anchor, focus |-> focus], text, style)
    IN  Invoke("replaceSelection",
               [NoArgs EXCEPT !.pos = anchor, !.end = focus, !.text = text, !.style = style],
               res, res.newPosition)

GetSelectedText ==
  \E anchor \in Offsets(doc), focus \in Offsets(doc) :
    Query("getSelectedText", [NoArgs EXCEPT !.pos = anchor, !.end = focus],
          getSelectedText(doc, [anchor |-> anchor, focus |-> focus]))

GetStyleAtPosition ==
  \E pos \in Offsets(doc) :
    Query("getStyleAtPosition", [NoArgs EXCEPT !.pos = pos], getStyleAtPosition(doc, pos))

AbsoluteToSpanPosition ==
  \E pos \in Offsets(doc) :
    Query("absoluteToSpanPosition", [NoArgs EXCEPT !.pos = pos],
          absoluteToSpanPosition(doc, pos))

ToggleListForLines ==
  \E startLine \in Lines, endLine \in Lines, listType \in ListTypes :
    Invoke("toggleListForLines",
           [NoArgs EXCEPT !.pos = startLine, !.end = endLine, !.property = listType],
           toggleListForLines(doc, startLine, endLine, listType), 0)

IndentListItem ==
  \E lineIndex \in Lines :
    Invoke("indentListItem", [NoArgs EXCEPT !.pos = lineIndex],
           indentListItem(doc, lineIndex), 0)

OutdentListItem ==
  \E lineIndex \in Lines :
    Invoke("outdentListItem", [NoArgs EXCEPT !.pos = lineIndex],
           outdentListItem(doc, lineIndex), 0)

RemoveListItemAtLine ==
  \E lineIndex \in Lines :
    Invoke("removeListItemAtLine", [NoArgs EXCEPT !.pos = lineIndex],
           removeListItemAtLine(doc, lineIndex), 0)

RenumberLists == Invoke("renumberLists", NoArgs, renumberLists(doc), 0)

\* removeListItemAtLine and then renumberLists on its result, the two calls
\* the widget makes in a row when a list line goes away.
RemoveThenRenumber ==
  \E lineIndex \in Lines :
    LET removed == removeListItemAtLine(doc, lineIndex)
        renumbered == renumberLists(removed.doc)
    IN  Invoke("removeThenRenumber", [NoArgs EXCEPT !.pos = lineIndex],
               [threw |-> FALSE, doc |-> renumbered.doc, input |-> removed.input], 0)

\* The caller takes the result; a call that threw leaves it with the document
\* it had.
Return ==
  /\ call.op # "none"
  /\ doc' = IF call.threw THEN doc ELSE call.out
  /\ call' = NoCall
  /\ UNCHANGED <<budget, heap, layout, measurementCache, widget>>

FactoryDocs ==
  {createEmptyDocument} \cup {createDocument(t, s) : t \in InitTexts, s \in StyleArgs}

Init ==
  /\ doc \in FactoryDocs
  /\ call = NoCall
  /\ budget = MaxOps
  /\ heap = NoHeap
  /\ layout = NoLayout
  /\ measurementCache = NoCache
  /\ NoWidget

Next ==
  \/ InsertText
  \/ DeleteRange
  \/ ApplyStyleToRange
  \/ ToggleBoldInRange
  \/ ToggleItalicInRange
  \/ ToggleStyleInRange
  \/ ReplaceSelection
  \/ GetSelectedText
  \/ GetStyleAtPosition
  \/ AbsoluteToSpanPosition
  \/ ToggleListForLines
  \/ IndentListItem
  \/ OutdentListItem
  \/ RemoveListItemAtLine
  \/ RenumberLists
  \/ RemoveThenRenumber
  \/ Return

Spec == Init /\ [][Next]_vars

\* ------------------------------------------------------------------------
\* One call on a generated document.  The generated documents are the
\* factory documents and documents the operations produce from them: every
\* way of styling the characters of a factory text with the styles of
\* StylePool, and a one letter document with every list mapping over Lines
\* made of ItemPool.
\* ------------------------------------------------------------------------

\* DEFAULT_STYLE, what the style arguments make of it, and a style with the
\* numeric weight and strikethrough.
StylePool ==
  {DEFAULT_STYLE,
   [fontWeight |-> "bold", fontStyle |-> "normal", underline |-> FALSE, strikethrough |-> FALSE],
   [fontWeight |-> "normal", fontStyle |-> "italic", underline |-> TRUE, strikethrough |-> FALSE],
   [fontWeight |-> "700", fontStyle |-> "normal", underline |-> FALSE, strikethrough |-> TRUE]}

\* The characters of PatternText(n), each with a style of StylePool.
StyledChars(n) ==
  {[i \in 1..n |-> [char |-> PatternText(n)[i], style |-> st[i], absoluteIndex |-> i - 1]] :
     st \in [1..n -> StylePool]}

StyledDocs ==
  {[createEmptyDocument EXCEPT !.spans = << [text |-> <<>>, style |-> st] >>] :
     st \in StylePool}
  \cup UNION {{rebuildDocumentFromChars(createEmptyDocument, chars) : chars \in StyledChars(n)} :
                n \in 1..MaxLen}

\* Items toggleListForLines, indentListItem and outdentListItem produce.
ItemPool ==
  {[type |-> "bullet", level |-> 0, index |-> 0],
   [type |-> "number", level |-> 0, index |-> 1],
   [type |-> "number", level |-> 0, index |-> 2],
   [type |-> "number", level |-> 1, index |-> 1],
   [type |-> "number", level |-> 1, index |-> 2]}

ListPool == UNION {[S -> ItemPool] : S \in SUBSET Lines}

ListDocs == {[createDocument(<< "a" >>, NoStyle) EXCEPT !.listItems = m] : m \in ListPool}

DocPool == FactoryDocs \cup StyledDocs \cup ListDocs

InitFn ==
  /\ doc \in DocPool
  /\ call = NoCall
  /\ budget = 1
  /\ heap = NoHeap
  /\ layout = NoLayout
  /\ measurementCache = NoCache
  /\ NoWidget

SpecFn == InitFn /\ [][Next]_vars

\* ------------------------------------------------------------------------
\* Properties
\* ------------------------------------------------------------------------

\* The characters of a document with their styles, in order.
StyledText(d) ==
  LET chars == flattenDocument(d)
  IN  [i \in 1..Len(chars) |-> [char |-> chars[i].char, style |-> chars[i].style]]

PlainText(d) ==
  LET chars == flattenDocument(d)
  IN  [i \in 1..Len(chars) |-> chars[i].char]

Called(op) == call.op = op
Start == call.args.pos
End == call.args.end

SpanEditOps ==
  {"insertText", "deleteRange", "applyStyleToRange", "toggleBoldInRange",
   "toggleItalicInRange", "toggleStyleInRange", "replaceSelection"}

ListOps ==
  {"toggleListForLines", "indentListItem", "outdentListItem", "removeListItemAtLine",
   "renumberLists"}

WellFormed(d) ==
  /\ Len(d.spans) >= 1
  /\ \A i \in 1..(Len(d.spans) - 1) : d.spans[i].style # d.spans[i + 1].style
  /\ \A i \in 1..Len(d.spans) : Len(d.spans[i].text) = 0 => Len(d.spans) = 1

\* C1: every document made by the factories and every document returned by a
\* sequence of editing operations has at least one span, no two adjacent
\* spans of equal style, and no empty span unless it is the only span.
C1_SpansWellFormed ==
  /\ WellFormed(doc)
  /\ (call.op \in SpanEditOps /\ ~call.threw) => WellFormed(call.out)

\* C1 witness: a deletion removed the middle one of three spans and the two
\* outer spans, equal in style, were merged into one.
C1_Witness ==
  /\ Called("deleteRange")
  /\ Len(call.input.spans) = 3
  /\ Len(call.out.spans) = 1
  /\ Len(PlainText(call.out)) = 2

C3_NoThrow ==
  /\ ~call.threw
  /\ (call.op \in (SpanEditOps \ {"insertText", "replaceSelection"}) /\ Start >= End)
       => call.out = call.input

InRange(p) == 0 <= p /\ p <= getDocumentLength(call.input)

InsertRoundTrip ==
  getSelectedText(call.out, [anchor |-> Start, focus |-> Start + Len(call.args.text)])
    = call.args.text

\* C4 as stated: for any offset p and non-empty s, the text selected from p
\* to p + len(s) in insertText(doc, p, s) is s.
C4_RoundTripAnyOffset ==
  (Called("insertText") /\ Len(call.args.text) > 0) => InsertRoundTrip

\* C4 amended: for any offset p in [0, length] and non-empty s, the text
\* selected from p to p + len(s) in insertText(doc, p, s) is s.
C4_RoundTripInRange ==
  (Called("insertText") /\ Len(call.args.text) > 0 /\ InRange(Start)) => InsertRoundTrip

\* C4 witness: two characters inserted strictly inside a text.
C4_Witness ==
  /\ Called("insertText")
  /\ Len(call.args.text) = 2
  /\ 0 < Start
  /\ Start < getDocumentLength(call.input)
  /\ InsertRoundTrip

\* C5: absoluteToSpanPosition returns (0, 0) for every offset <= 0, the end
\* of the last span for every offset >= length, and always a charOffset
\* within the returned span's text.
C5_PositionClamped ==
  (Called("absoluteToSpanPosition") /\ Len(call.input.spans) > 0) =>
    LET spans == call.input.spans
        last == Len(spans)
    IN  /\ Start <= 0 => call.val = [spanIndex |-> 0, charOffset |-> 0]
        /\ Start >= getDocumentLength(call.input) =>
             call.val = [spanIndex |-> last - 1, charOffset |-> Len(spans[last].text)]
        /\ call.val.spanIndex \in 0..(last - 1)
        /\ call.val.charOffset >= 0
        /\ call.val.charOffset <= Len(spans[call.val.spanIndex + 1].text)

\* The style the inserted characters are to carry: that of the span
\* absoluteToSpanPosition selects (the default style when there is no span),
\* overridden field by field by the style argument.
ExpectedInsertStyle ==
  LET d == call.input
      base == IF Len(d.spans) = 0 THEN DEFAULT_STYLE
              ELSE d.spans[absoluteToSpanPosition(d, Start).spanIndex + 1].style
  IN  [f \in DOMAIN base |->
         IF f \in DOMAIN call.args.style THEN call.args.style[f] ELSE base[f]]

\* C6: insertText at p in [0, length] with non-empty text yields
\* old[0..p) + text + old[p..), every old character keeping its style and the
\* inserted ones carrying the selected span's style overridden by the style
\* argument; with empty text it returns the input.
C6_InsertText ==
  (Called("insertText") /\ InRange(Start)) =>
    LET old == StyledText(call.input)
        text == call.args.text
        new == [i \in 1..Len(text) |-> [char |-> text[i], style |-> ExpectedInsertStyle]]
    IN  /\ ~call.threw
        /\ IF Len(text) = 0
           THEN call.out = call.input
           ELSE /\ StyledText(call.out)
                     = SubSeq(old, 1, Start) \o new \o SubSeq(old, Start + 1, Len(old))
                /\ getDocumentLength(call.out) = getDocumentLength(call.input) + Len(text)

\* C6 witness: text inserted strictly inside a span with a style argument
\* that changes a field of that span's style.
C6_Witness ==
  /\ Called("insertText")
  /\ Len(call.args.text) > 0
  /\ 0 < Start
  /\ Start < getDocumentLength(call.input)
  /\ Len(call.input.spans) = 1
  /\ ExpectedInsertStyle # call.input.spans[1].style
  /\ Len(call.out.spans) = 3

\* seq without the elements at the 0-based indices in [start, end).
RECURSIVE WithoutRange(_, _, _, _)
WithoutRange(seq, i, start, end) ==
  IF i > Len(seq) THEN <<>>
  ELSE (IF start <= i - 1 /\ i - 1 < end THEN <<>> ELSE << seq[i] >>)
       \o WithoutRange(seq, i + 1, start, end)

\* C7: deleteRange with start < end removes exactly the characters at the
\* offsets of [start, end) that exist, keeps the rest in order with their
\* styles, never lengthens the text, and leaves one empty span with the old
\* first span's style (the default style without a span) when nothing remains.
C7_DeleteRange ==
  (Called("deleteRange") /\ Start < End) =>
    LET old == StyledText(call.input)
    IN  /\ ~call.threw
        /\ StyledText(call.out) = WithoutRange(old, 1, Start, End)
        /\ getDocumentLength(call.out) <= getDocumentLength(call.input)
        /\ getDocumentLength(call.out) = 0 =>
             call.out.spans =
               << [text |-> <<>>,
                   style |-> IF Len(call.input.spans) > 0
                             THEN call.input.spans[1].style ELSE DEFAULT_STYLE] >>

\* The same for a range that starts at 0 or later.
DeleteRangeFromZero == Start >= 0 => C7_DeleteRange

\* The style a character of style st is to have after partial is applied.
Overridden(st, partial) ==
  [f \in DOMAIN st |-> IF f \in DOMAIN partial THEN partial[f] ELSE st[f]]

\* C8: applyStyleToRange with start < end keeps the text, gives every
\* character of [start, end) its style overridden by partialStyle, keeps every
\* other character's style, and keeps the span count when partialStyle
\* changes no value.
C8_ApplyStyle ==
  (Called("applyStyleToRange") /\ Start < End) =>
    LET old == StyledText(call.input)
        new == StyledText(call.out)
        inside == {i \in 1..Len(old) : Start <= i - 1 /\ i - 1 < End}
    IN  /\ ~call.threw
        /\ PlainText(call.out) = PlainText(call.input)
        /\ \A i \in 1..Len(old) :
             new[i].style = IF i \in inside THEN Overridden(old[i].style, call.args.style)
                            ELSE old[i].style
        /\ (\A i \in inside : Overridden(old[i].style, call.args.style) = old[i].style)
             => Len(call.out.spans) = Len(call.input.spans)

\* The same for a range that starts at 0 or later.
ApplyStyleFromZero == Start >= 0 => C8_ApplyStyle

ToggleOps == {"toggleBoldInRange", "toggleItalicInRange", "toggleStyleInRange"}

\* Whether a style has the property the called toggle is about.
Has(st) ==
  CASE Called("toggleBoldInRange") -> st.fontWeight \in {"bold", "700"}
    [] Called("toggleItalicInRange") -> st.fontStyle = "italic"
    [] OTHER -> st[call.args.property]

\* The called toggle, called once more on d with the same range.
Again(d) ==
  CASE Called("toggleBoldInRange") -> toggleBoldInRange(d, Start, End)
    [] Called("toggleItalicInRange") -> toggleItalicInRange(d, Start, End)
    [] OTHER -> toggleStyleInRange(d, Start, End, call.args.property)

\* C9: on a range holding characters with and without the property a toggle
\* sets the property on every character of the range, and a second call on
\* the same range clears it on every one; a toggle clears the property only
\* when every character of the range had it.
C9_ToggleAllOrNothing ==
  (call.op \in ToggleOps /\ Start < End) =>
    LET old == StyledText(call.input)
        new == StyledText(call.out)
        inside == {i \in 1..Len(old) : Start <= i - 1 /\ i - 1 < End}
        mixed == \E i, j \in inside : Has(old[i].style) /\ ~Has(old[j].style)
        again == Again(call.out)
    IN  /\ mixed =>
             /\ ~call.threw
             /\ \A i \in inside : Has(new[i].style)
             /\ ~again.threw
             /\ \A i \in inside : ~Has(StyledText(again.doc)[i].style)
        /\ (\E i \in inside : Has(old[i].style) /\ ~Has(new[i].style))
             => \A i \in inside : Has(old[i].style)

\* The same for a range that starts at 0 or later.
ToggleFromZero == Start >= 0 => C9_ToggleAllOrNothing

\* Length of the text of the first k spans.
RECURSIVE TextBefore(_, _)
TextBefore(spans, k) ==
  IF k = 0 THEN 0 ELSE TextBefore(spans, k - 1) + Len(spans[k].text)

\* C10: getStyleAtPosition returns the following span's style at the end of a
\* span that has a successor, a span's own style strictly inside it, the
\* first span's style at offset 0 and the last span's style at offset length.
C10_StyleAtPosition ==
  (Called("getStyleAtPosition") /\ Len(call.input.spans) > 0) =>
    LET spans == call.input.spans
        n == Len(spans)
    IN  /\ \A k \in 1..(n - 1) :
             Start = TextBefore(spans, k) => call.val = spans[k + 1].style
        /\ \A k \in 1..n :
             (TextBefore(spans, k - 1) < Start /\ Start < TextBefore(spans, k))
               => call.val = spans[k].style
        /\ Start = 0 => call.val = spans[1].style
        /\ Start = TextBefore(spans, n) => call.val = spans[n].style

\* C10 witness: the offset is the end of the first of several spans and the
\* style returned is the second span's.
C10_Witness ==
  /\ Called("getStyleAtPosition")
  /\ Len(call.input.spans) >= 2
  /\ Start = Len(call.input.spans[1].text)
  /\ call.val = call.input.spans[2].style
  /\ call.val # call.input.spans[1].style

\* C11: replaceSelection with anchor and focus in [0, length] returns the text
\* old[0..min) + text + old[max..) and newPosition = min + len(text), which
\* lies in [0, length of the returned document]; the selection with anchor
\* and focus swapped gives the same text and the same newPosition.
C11_ReplaceSelection ==
  (Called("replaceSelection") /\ InRange(Start) /\ InRange(End)) =>
    LET old == PlainText(call.input)
        lo == Min(Start, End)
        hi == Max(Start, End)
        swapped == replaceSelection(call.input, [anchor |-> End, focus |-> Start],
                                    call.args.text, call.args.style)
    IN  /\ ~call.threw
        /\ PlainText(call.out) = SubSeq(old, 1, lo) \o call.args.text \o SubSeq(old, hi + 1, Len(old))
        /\ call.val = lo + Len(call.args.text)
        /\ call.val >= 0
        /\ call.val <= getDocumentLength(call.out)
        /\ PlainText(swapped.doc) = PlainText(call.out)
        /\ swapped.newPosition = call.val

\* C11 witness: a reversed selection strictly inside the text was replaced
\* by two letters.
C11_Witness ==
  /\ Called("replaceSelection")
  /\ 0 < End
  /\ End < Start
  /\ Start < getDocumentLength(call.input)
  /\ Len(call.args.text) = 2
  /\ call.val = End + 2

\* Line l holds a numbered item of m.
Numbered(m, l) == l \in DOMAIN m /\ m[l].type = "number"

\* The lines p + 1 .. l - 1 all hold numbered items deeper than level.
DeeperBetween(m, p, l, level) ==
  \A j \in (p + 1)..(l - 1) : Numbered(m, j) /\ m[j].level > level

\* renumberLists keeps one running counter per level along consecutive
\* numbered lines: the first line starts at 1, an item continues the count of
\* the nearest earlier item of its level when only deeper items lie between,
\* and an item that follows a shallower one starts at 1.
RunningCounters ==
  Called("renumberLists") =>
    LET m == call.input.listItems
        out == call.out.listItems
    IN  \A l \in DOMAIN m :
          Numbered(m, l) =>
            /\ (\A p \in DOMAIN m : p >= l) => out[l].index = 1
            /\ \A p \in DOMAIN m :
                 (p < l /\ Numbered(m, p) /\ m[p].level = m[l].level
                    /\ DeeperBetween(m, p, l, m[l].level))
                   => out[l].index = out[p].index + 1
            /\ (Numbered(m, l - 1) /\ m[l - 1].level < m[l].level) => out[l].index = 1

\* A numbered item that follows a non-list line between two list lines is
\* numbered 1.
GapResets ==
  Called("renumberLists") =>
    LET m == call.input.listItems
        out == call.out.listItems
    IN  \A l \in DOMAIN m :
          (Numbered(m, l) /\ (l - 1) \notin DOMAIN m /\ (\E p \in DOMAIN m : p < l))
            => out[l].index = 1

\* C12: renumberLists keeps one running counter per nesting level over the
\* list lines in ascending order; a non-list line between two list lines
\* resets the counters, so numbering restarts at 1 after the gap, and an item
\* at a shallower level clears the deeper counters while its own level's
\* count continues.
C12_RenumberCounters == RunningCounters /\ GapResets

\* The numbered items of m before line l that are counted with the item at
\* line l: they have its level and no shallower item lies between.
CountedBefore(m, l) ==
  {p \in DOMAIN m :
     /\ p < l
     /\ m[p].level = m[l].level
     /\ \A j \in DOMAIN m : (p < j /\ j < l) => m[j].level >= m[l].level}

AllNumbered(m) == \A l \in DOMAIN m : m[l].type = "number"

SameButIndex(m, n) ==
  /\ DOMAIN m = DOMAIN n
  /\ \A l \in DOMAIN m : m[l].type = n[l].type /\ m[l].level = n[l].level

\* C14: the result of renumberLists depends on the lines, kinds and levels of
\* the entries and not on the indices they held: every mapping that differs
\* from the argument's only in index values renumbers to the same mapping,
\* and renumbering the result again changes nothing.
C14_IndexIndependent ==
  Called("renumberLists") =>
    /\ \A m \in ListPool :
         SameButIndex(m, call.input.listItems)
           => renumberLists([call.input EXCEPT !.listItems = m]).doc = call.out
    /\ renumberLists(call.out).doc = call.out

\* C14 witness: renumberLists changed an index of a mapping that has a
\* variant with other indices.
C14_Witness ==
  /\ Called("renumberLists")
  /\ call.out # call.input
  /\ \E m \in ListPool :
       SameButIndex(m, call.input.listItems) /\ m # call.input.listItems

\* C15: renumberLists changes nothing but the index of numbered items: the
\* list lines, every entry's kind and level, every bullet entry and the rest
\* of the document (spans, alignment, padding) are as before.
C15_RenumberFrame ==
  Called("renumberLists") =>
    LET m == call.input.listItems
        out == call.out.listItems
    IN  /\ ~call.threw
        /\ SameButIndex(m, out)
        /\ \A l \in DOMAIN m : m[l].type = "bullet" => out[l] = m[l]
        /\ call.out.spans = call.input.spans
        /\ call.out = [call.input EXCEPT !.listItems = out]

\* C15 witness: the mapping holds a bullet and a numbered item and the
\* numbered item's index was changed.
C15_Witness ==
  /\ Called("renumberLists")
  /\ \E l \in DOMAIN call.input.listItems : call.input.listItems[l].type = "bullet"
  /\ \E l \in DOMAIN call.input.listItems :
       /\ call.input.listItems[l].type = "number"
       /\ call.out.listItems[l].index # call.input.listItems[l].index

Prim(p) == [ref |-> 0, prim |-> p]
Ref(a) == [ref |-> a, prim |-> ""]
EmptyObject == [f \in {} |-> Prim("")]

\* The keys of arrays and Maps, in ascending order.
KeyNames == << "0", "1", "2" >>
KeysOf(obj) == SelectSeq(KeyNames, LAMBDA k : k \in DOMAIN obj)
KeyPos(keys, k) == CHOOSE i \in 1..Len(keys) : keys[i] = k

\* The primitive fields of DEFAULT_STYLE.
DefaultStyleObject ==
  [fontFamily |-> Prim("Arial"), fontSize |-> Prim("16"), fontWeight |-> Prim("normal"),
   fontStyle |-> Prim("normal"), color |-> Prim("#000000"), underline |-> Prim("false"),
   strikethrough |-> Prim("false"), letterSpacing |-> Prim("0"), lineHeight |-> Prim("1.4")]

StrokeObject == [color |-> Prim("red"), width |-> Prim("1")]
ShadowObject ==
  [color |-> Prim("gray"), blur |-> Prim("2"), offsetX |-> Prim("1"), offsetY |-> Prim("1")]

\* The objects of a document of ns spans whose styles have a stroke and a
\* shadow or not, and ni numbered list items; the document is the last
\* object.
DocumentObjects(ns, stroke, shadow, ni) ==
  LET c == 2 + (IF stroke THEN 1 ELSE 0) + (IF shadow THEN 1 ELSE 0)
      strokeAt(i) == (i - 1) * c + 1
      shadowAt(i) == (i - 1) * c + (IF stroke THEN 2 ELSE 1)
      styleAt(i) == i * c - 1
      spanAt(i) == i * c
      arrayAt == ns * c + 1
      itemAt(j) == arrayAt + j
      mapAt == arrayAt + ni + 1
      rootAt == mapAt + 1
      styleObject(i) ==
        DefaultStyleObject
          @@ (IF stroke THEN "stroke" :> Ref(strokeAt(i)) ELSE EmptyObject)
          @@ (IF shadow THEN "shadow" :> Ref(shadowAt(i)) ELSE EmptyObject)
      spanObject(i) ==
        [id |-> Prim(KeyNames[i]), text |-> Prim(PatternText(i)[i]), style |-> Ref(styleAt(i))]
      itemObject(j) ==
        [type |-> Prim("number"), level |-> Prim("0"), index |-> Prim(KeyNames[j + 1])]
      rootObject ==
        [spans |-> Ref(arrayAt), align |-> Prim("left"), verticalAlign |-> Prim("top"),
         padding |-> Prim("8"), listItems |-> Ref(mapAt)]
      object(a) ==
        IF a = rootAt THEN rootObject
        ELSE IF a = mapAt THEN [k \in {KeyNames[j] : j \in 1..ni} |-> Ref(itemAt(KeyPos(KeyNames, k)))]
        ELSE IF a > arrayAt THEN itemObject(a - arrayAt)
        ELSE IF a = arrayAt THEN [k \in {KeyNames[i] : i \in 1..ns} |-> Ref(spanAt(KeyPos(KeyNames, k)))]
        ELSE LET i == ((a - 1) \div c) + 1
             IN  IF a = spanAt(i) THEN spanObject(i)
                 ELSE IF a = styleAt(i) THEN styleObject(i)
                 ELSE IF stroke /\ a = strokeAt(i) THEN StrokeObject
                 ELSE ShadowObject
  IN  [a \in 1..rootAt |-> object(a)]

\* cloneDocument(doc) for the document at address root: a new Map with a
\* spread copy of every item, a new array with a spread copy of every span
\* whose style is a spread copy of the span's style, and a spread copy of
\* the document that holds the new array and the new Map.
cloneDocument(objects, root) ==
  LET n == Len(objects)
      original == objects[root]
      listItems == objects[original.listItems.ref]
      spans == objects[original.spans.ref]
      itemKeys == KeysOf(listItems)
      spanKeys == KeysOf(spans)
      ni == Len(itemKeys)
      ns == Len(spanKeys)
      mapAt == n + 1
      itemAt(j) == mapAt + j
      spanAt(i) == mapAt + ni + 2 * i - 1
      styleAt(i) == mapAt + ni + 2 * i
      arrayAt == mapAt + ni + 2 * ns + 1
      cloneAt == arrayAt + 1
      span(i) == objects[spans[spanKeys[i]].ref]
      object(a) ==
        IF a <= n THEN objects[a]
        ELSE IF a = mapAt THEN [k \in DOMAIN listItems |-> Ref(itemAt(KeyPos(itemKeys, k)))]
        ELSE IF a <= mapAt + ni THEN objects[listItems[itemKeys[a - mapAt]].ref]
        ELSE IF a = cloneAt
             THEN [original EXCEPT !.spans = Ref(arrayAt), !.listItems = Ref(mapAt)]
        ELSE IF a = arrayAt THEN [k \in DOMAIN spans |-> Ref(spanAt(KeyPos(spanKeys, k)))]
        ELSE LET i == (a - mapAt - ni + 1) \div 2
             IN  IF a = spanAt(i) THEN [span(i) EXCEPT !.style = Ref(styleAt(i))]
                 ELSE objects[span(i).style.ref]
  IN  [objects |-> [a \in 1..cloneAt |-> object(a)], clone |-> cloneAt]

\* The addresses reached from the object at a.
RECURSIVE Reach(_, _)
Reach(objects, a) ==
  {a} \cup UNION {Reach(objects, objects[a][f].ref) :
                    f \in {g \in DOMAIN objects[a] : objects[a][g].ref # 0}}

\* The objects at a and b have the same value, property by property.
RECURSIVE DeepEqual(_, _, _)
DeepEqual(objects, a, b) ==
  LET x == objects[a]
      y == objects[b]
  IN  /\ DOMAIN x = DOMAIN y
      /\ \A f \in DOMAIN x :
           IF x[f].ref = 0 THEN y[f] = x[f]
           ELSE y[f].ref # 0 /\ DeepEqual(objects, x[f].ref, y[f].ref)

\* The caller clones the document it holds.
CloneDocument ==
  /\ heap.original # 0
  /\ heap.clone = 0
  /\ LET cloned == cloneDocument(heap.objects, heap.original)
     IN  heap' = [heap EXCEPT !.objects = cloned.objects, !.clone = cloned.clone]
  /\ UNCHANGED <<doc, call, budget, layout, measurementCache, widget>>

\* The caller assigns to a property of an object it reaches from the clone
\* (clone.spans[0].text = ..., clone.spans[0].style.stroke.width = ...).
WriteProperty ==
  /\ heap.clone # 0
  /\ budget > 0
  /\ \E a \in Reach(heap.objects, heap.clone) :
       \E f \in {g \in DOMAIN heap.objects[a] : heap.objects[a][g].ref = 0} :
         /\ heap.objects[a][f] # Prim("changed")
         /\ heap' = [heap EXCEPT !.objects[a][f] = Prim("changed")]
  /\ budget' = budget - 1
  /\ UNCHANGED <<doc, call, layout, measurementCache, widget>>

\* The caller deletes an entry of the clone's Map (clone.listItems.delete(k)).
DeleteEntry ==
  /\ heap.clone # 0
  /\ budget > 0
  /\ LET mapAt == heap.objects[heap.clone].listItems.ref
         listItems == heap.objects[mapAt]
     IN  \E k \in DOMAIN listItems :
           heap' = [heap EXCEPT !.objects[mapAt] = [x \in DOMAIN listItems \ {k} |-> listItems[x]]]
  /\ budget' = budget - 1
  /\ UNCHANGED <<doc, call, layout, measurementCache, widget>>

\* Documents of one or two spans, with and without stroke and shadow, with
\* and without a list item.
HeapDocuments ==
  {DocumentObjects(ns, stroke, shadow, ni) :
     ns \in 1..2, stroke \in BOOLEAN, shadow \in BOOLEAN, ni \in 0..1}

InitClone ==
  /\ doc = createEmptyDocument
  /\ call = NoCall
  /\ budget = MaxOps
  /\ \E objects \in HeapDocuments :
       heap = [objects |-> objects, before |-> objects,
               original |-> Len(objects), clone |-> 0]
  /\ layout = NoLayout
  /\ measurementCache = NoCache
  /\ NoWidget

NextClone ==
  \/ CloneDocument
  \/ WriteProperty
  \/ DeleteEntry

SpecClone == InitClone /\ [][NextClone]_vars

\* The clone has just been made.
JustCloned == heap.clone # 0 /\ budget = MaxOps

\* The clone has the value of the original.
CloneEqualsOriginal ==
  JustCloned => DeepEqual(heap.objects, heap.original, heap.clone)

\* The addresses of the stroke and shadow objects the original reaches.
NestedStyleObjects ==
  UNION {{heap.before[a][f].ref : f \in DOMAIN heap.before[a] \cap {"stroke", "shadow"}} :
           a \in Reach(heap.before, heap.original)}

\* Whatever is done to the clone, the objects the original reaches other
\* than the stroke and shadow objects are as they were.
OriginalKeptButNested ==
  \A a \in Reach(heap.before, heap.original) \ NestedStyleObjects :
    heap.objects[a] = heap.before[a]

\* C17: the clone equals the original in value, and no later mutation of the
\* clone (a span's text, a style field, a field of a nested stroke or shadow
\* object, a list-item entry) changes an object the original reaches.
C17_CloneIsDeep ==
  /\ CloneEqualsOriginal
  /\ \A a \in Reach(heap.before, heap.original) : heap.objects[a] = heap.before[a]

\* ------------------------------------------------------------------------
\* layout-engine.ts: measurement, tokenization, line breaking, positioning
\* and hit testing.
\* ------------------------------------------------------------------------

\* Lengths are counted in 1/Unit of a pixel.
Unit == 60

\* buildFontString(style): the font style and the numeric weight; the font
\* size and family are the same for every style of the model.
buildFontString(style) ==
  << style.fontStyle,
     IF style.fontWeight = "700" THEN 700 ELSE IF style.fontWeight = "bold" THEN 700 ELSE 400 >>

\* getMeasurementCacheKey leaving the font out of the key.
getMeasurementCacheKeyCharOnly(char, style) == << char >>

\* getMeasurementCacheKey(char, style); letterSpacing is 0 for every style
\* of the model.
getMeasurementCacheKey(char, style) == << char, buildFontString(style) >>

\* ctx.measureText(char).width with ctx.font = font: what the canvas gives
\* is an input of the program; here a space is one pixel wide, any other
\* character two, and a character of weight 700 one more.
MeasureText(char, font) ==
  (IF char = " " THEN Unit ELSE 2 * Unit) + (IF font[2] # 400 THEN Unit ELSE 0)

\* What measureChar(char, style) returns with the cache the program holds.
measureChar(char, style) ==
  LET cacheKey == getMeasurementCacheKey(char, style)
  IN  IF cacheKey \in DOMAIN measurementCache
      THEN measurementCache[cacheKey]
      ELSE MeasureText(char, buildFontString(style))

\* The cache after measureChar(char, style): a width is set on a miss.
CacheSet(cache, char, style) ==
  LET cacheKey == getMeasurementCacheKey(char, style)
  IN  [key \in DOMAIN cache \cup {cacheKey} |->
         IF key \in DOMAIN cache THEN cache[key]
         ELSE MeasureText(char, buildFontString(style))]

\* The cache after tokenize has measured chars[i..] (0-based) in order;
\* newlines are not measured.
RECURSIVE MeasureAll(_, _, _)
MeasureAll(cache, chars, i) ==
  IF i >= Len(chars) THEN cache
  ELSE IF chars[i + 1].char = "\n" THEN MeasureAll(cache, chars, i + 1)
  ELSE MeasureAll(CacheSet(cache, chars[i + 1].char, chars[i + 1].style), chars, i + 1)

\* getFontMetrics(style): the same for every style of the model.
getFontMetrics(style) == [ascent |-> Unit, descent |-> Unit, height |-> 2 * Unit]

\* calculateLineMetrics(chars): the metrics of the default style for an empty
\* line, else the largest scaled ascent and descent of the line's characters.
calculateLineMetrics(chars) ==
  LET metrics == getFontMetrics(DEFAULT_STYLE)
  IN  [height |-> metrics.ascent + metrics.descent, baseline |-> metrics.ascent]

RECURSIVE SumWidths(_, _)
SumWidths(chars, i) ==
  IF i >= Len(chars) THEN 0
  ELSE measureChar(chars[i + 1].char, chars[i + 1].style) + SumWidths(chars, i + 1)

\* pushToken of tokenize.
PushToken(tokens, currentToken, currentType) ==
  IF Len(currentToken) > 0
  THEN Append(tokens, [chars |-> currentToken, width |-> SumWidths(currentToken, 0),
                       type |-> currentType])
  ELSE tokens

\* The for loop of tokenize from chars[i] (0-based) on.
RECURSIVE TokenizeLoop(_, _, _, _, _)
TokenizeLoop(chars, i, tokens, currentToken, currentType) ==
  IF i >= Len(chars) THEN PushToken(tokens, currentToken, currentType)
  ELSE LET char == chars[i + 1]
       IN  IF char.char = "\n"
           THEN TokenizeLoop(chars, i + 1,
                             Append(PushToken(tokens, currentToken, currentType),
                                    [chars |-> << char >>, width |-> 0, type |-> "newline"]),
                             <<>>, "word")
           ELSE LET type == IF char.char = " " \/ char.char = "\t" THEN "whitespace" ELSE "word"
                IN  IF currentType # type
                    THEN TokenizeLoop(chars, i + 1, PushToken(tokens, currentToken, currentType),
                                      << char >>, type)
                    ELSE TokenizeLoop(chars, i + 1, tokens, Append(currentToken, char), type)

tokenize(chars) == TokenizeLoop(chars, 0, <<>>, <<>>, "word")

\* The number of spaces among chars.
RECURSIVE SpaceCount(_, _)
SpaceCount(chars, i) ==
  IF i >= Len(chars) THEN 0
  ELSE (IF chars[i + 1].char = " " THEN 1 ELSE 0) + SpaceCount(chars, i + 1)

\* The positioning loop of positionCharsInLine from chars[i] (0-based) on.
RECURSIVE PositionLoop(_, _, _, _, _, _, _, _)
PositionLoop(chars, i, currentX, align, extraSpacing, lineY, baseline, lineIndex) ==
  IF i >= Len(chars) THEN <<>>
  ELSE LET char == chars[i + 1]
           charWidth == measureChar(char.char, char.style)
           metrics == getFontMetrics(char.style)
           nextX == currentX + charWidth
                      + (IF align = "justify" /\ char.char = " " THEN extraSpacing ELSE 0)
       IN  << [char |-> char, x |-> currentX, y |-> lineY, width |-> charWidth,
               height |-> metrics.height, baseline |-> baseline, lineIndex |-> lineIndex] >>
           \o PositionLoop(chars, i + 1, nextX, align, extraSpacing, lineY, baseline, lineIndex)

positionCharsInLine(chars, align, availableWidth, lineWidth, padding, lineY, baseline, lineIndex, isLastLine) ==
  LET spaceCount == SpaceCount(chars, 0)
      startX == IF align = "center" THEN padding + (availableWidth - lineWidth) \div 2
                ELSE IF align = "right" THEN padding + availableWidth - lineWidth
                ELSE padding
      extraSpacing ==
        IF align = "justify" /\ ~isLastLine /\ Len(chars) > 1 /\ spaceCount > 0
        THEN (availableWidth - lineWidth) \div spaceCount
        ELSE 0
  IN  PositionLoop(chars, 0, startX, align, extraSpacing, lineY, baseline, lineIndex)

\* finalizeLine of layoutText; st is [lines, currentLineChars,
\* currentLineWidth, currentY].
finalizeLine(st, isLastLine, d, availableWidth, padding) ==
  LET metrics == calculateLineMetrics(st.currentLineChars)
      positionedChars ==
        IF Len(st.currentLineChars) = 0 THEN <<>>
        ELSE positionCharsInLine(st.currentLineChars, d.align, availableWidth,
                                 st.currentLineWidth, padding, st.currentY,
                                 metrics.baseline, Len(st.lines), isLastLine)
  IN  [lines |-> Append(st.lines,
                        [chars |-> positionedChars, y |-> st.currentY,
                         height |-> metrics.height, baseline |-> metrics.baseline,
                         width |-> IF Len(st.currentLineChars) = 0 THEN 0
                                   ELSE st.currentLineWidth,
                         lineIndex |-> Len(st.lines)]),
       currentLineChars |-> <<>>,
       currentLineWidth |-> 0,
       currentY |-> st.currentY + metrics.height]

\* The test of layoutText's loop left out: every token goes on the line.
FitsAlways(st, token, availableWidth) == TRUE

\* The token fits on the current line, or the line is empty.
Fits(st, token, availableWidth) ==
  st.currentLineWidth + token.width <= availableWidth \/ Len(st.currentLineChars) = 0

\* LayoutLoop starting the next line with a whitespace token that does not
\* fit, as it does with a word.
RECURSIVE LayoutLoopKeepWhitespace(_, _, _, _, _, _)
LayoutLoopKeepWhitespace(tokens, i, st, d, availableWidth, padding) ==
  IF i >= Len(tokens) THEN st
  ELSE LET token == tokens[i + 1]
           finalized == finalizeLine(st, FALSE, d, availableWidth, padding)
       IN  IF token.type = "newline"
           THEN LayoutLoopKeepWhitespace(tokens, i + 1, finalized, d, availableWidth, padding)
           ELSE IF Fits(st, token, availableWidth)
           THEN LayoutLoopKeepWhitespace(tokens, i + 1,
                           [st EXCEPT !.currentLineChars = @ \o token.chars,
                                      !.currentLineWidth = @ + token.width],
                           d, availableWidth, padding)
           ELSE LayoutLoopKeepWhitespace(tokens, i + 1,
                           [finalized EXCEPT !.currentLineChars = token.chars,
                                             !.currentLineWidth = token.width],
                           d, availableWidth, padding)

\* The token loop of layoutText from tokens[i] (0-based) on.
RECURSIVE LayoutLoop(_, _, _, _, _, _)
LayoutLoop(tokens, i, st, d, availableWidth, padding) ==
  IF i >= Len(tokens) THEN st
  ELSE LET token == tokens[i + 1]
           finalized == finalizeLine(st, FALSE, d, availableWidth, padding)
       IN  IF token.type = "newline"
           THEN LayoutLoop(tokens, i + 1, finalized, d, availableWidth, padding)
           ELSE IF Fits(st, token, availableWidth)
           THEN LayoutLoop(tokens, i + 1,
                           [st EXCEPT !.currentLineChars = @ \o token.chars,
                                      !.currentLineWidth = @ + token.width],
                           d, availableWidth, padding)
           ELSE IF token.type = "whitespace"
           THEN LayoutLoop(tokens, i + 1, finalized, d, availableWidth, padding)
           ELSE LayoutLoop(tokens, i + 1,
                           [finalized EXCEPT !.currentLineChars = token.chars,
                                             !.currentLineWidth = token.width],
                           d, availableWidth, padding)

\* line.y and every char.y of the line moved down by verticalOffset.
MoveLine(line, verticalOffset) ==
  [line EXCEPT !.y = @ + verticalOffset,
               !.chars = [k \in 1..Len(line.chars) |->
                            [line.chars[k] EXCEPT !.y = @ + verticalOffset]]]

RECURSIVE FlattenLines(_, _)
FlattenLines(lines, i) ==
  IF i >= Len(lines) THEN <<>> ELSE lines[i + 1].chars \o FlattenLines(lines, i + 1)

\* FinalLine finalizing a last line only when it holds characters.
FinalLineIfChars(looped, d, availableWidth, padding) ==
  IF Len(looped.currentLineChars) > 0
  THEN finalizeLine(looped, TRUE, d, availableWidth, padding)
  ELSE looped

\* "Finalize last line" of layoutText: the line after the token loop, if it
\* holds characters or no line exists yet.
FinalLine(looped, d, availableWidth, padding) ==
  IF Len(looped.currentLineChars) > 0 \/ Len(looped.lines) = 0
  THEN finalizeLine(looped, TRUE, d, availableWidth, padding)
  ELSE looped

\* layoutText(doc, containerWidth, containerHeight); the container's sizes
\* are given in 1/Unit pixel, doc.padding in pixels.
layoutText(d, containerWidth, containerHeight) ==
  LET padding == d.padding * Unit
      tokens == tokenize(flattenDocument(d))
      availableWidth == containerWidth - padding * 2
      looped == LayoutLoop(tokens, 0,
                           [lines |-> <<>>, currentLineChars |-> <<>>,
                            currentLineWidth |-> 0, currentY |-> padding],
                           d, availableWidth, padding)
      Aligned(st) ==
        LET totalTextHeight == st.currentY - padding
            verticalOffset ==
              IF d.verticalAlign = "middle"
              THEN (containerHeight - totalTextHeight - padding) \div 2
              ELSE IF d.verticalAlign = "bottom"
              THEN containerHeight - totalTextHeight - padding * 2
              ELSE 0
        IN  IF verticalOffset > 0
            THEN [k \in 1..Len(st.lines) |-> MoveLine(st.lines[k], verticalOffset)]
            ELSE st.lines
      Result(lines) ==
        [lines |-> lines, width |-> containerWidth, height |-> containerHeight,
         chars |-> FlattenLines(lines, 0)]
      \* Each step is computed once, from the value of the step before.
      finalized == {FinalLine(st, d, availableWidth, padding) : st \in {looped}}
      aligned == {Aligned(st) : st \in finalized}
  IN  CHOOSE result \in {Result(lines) : lines \in aligned} : TRUE

\* The first line of lines[i..] (0-based) whose span [y, y + height) holds y;
\* 0 when there is none, else the line's place in lines (1-based).
RECURSIVE FindLine(_, _, _)
FindLine(lines, i, y) ==
  IF i >= Len(lines) THEN 0
  ELSE IF y >= lines[i + 1].y /\ y < lines[i + 1].y + lines[i + 1].height THEN i + 1
  ELSE FindLine(lines, i + 1, y)

\* FirstBefore comparing x with the left edge of each character.
RECURSIVE FirstBeforeLeftEdge(_, _, _)
FirstBeforeLeftEdge(chars, i, x) ==
  IF i >= Len(chars) THEN 0 - 1
  ELSE IF x < chars[i + 1].x THEN chars[i + 1].char.absoluteIndex
  ELSE FirstBeforeLeftEdge(chars, i + 1, x)

\* The absoluteIndex of the first of chars[i..] (0-based) whose midpoint lies
\* right of x, or -1 when there is none.
RECURSIVE FirstBefore(_, _, _)
FirstBefore(chars, i, x) ==
  IF i >= Len(chars) THEN 0 - 1
  ELSE IF x < chars[i + 1].x + chars[i + 1].width \div 2 THEN chars[i + 1].char.absoluteIndex
  ELSE FirstBefore(chars, i + 1, x)

hitTest(lay, x, y) ==
  IF Len(lay.lines) = 0 \/ Len(lay.chars) = 0 THEN 0
  ELSE LET found == FindLine(lay.lines, 0, y)
           targetLine == IF found # 0 THEN lay.lines[found]
                         ELSE IF y < lay.lines[1].y THEN lay.lines[1]
                         ELSE lay.lines[Len(lay.lines)]
           later == SelectSeq(lay.chars, LAMBDA c : c.lineIndex > targetLine.lineIndex)
           inLine == FirstBefore(targetLine.chars, 0, x)
       IN  IF Len(targetLine.chars) = 0
           THEN IF Len(later) > 0 THEN later[1].char.absoluteIndex
                ELSE lay.chars[Len(lay.chars)].char.absoluteIndex + 1
           ELSE IF inLine >= 0 THEN inLine
           ELSE targetLine.chars[Len(targetLine.chars)].char.absoluteIndex + 1

\* The place (1-based) of the first of chars[i..] (0-based) whose
\* absoluteIndex is index, or 0 when there is none.
RECURSIVE FindChar(_, _, _)
FindChar(chars, i, index) ==
  IF i >= Len(chars) THEN 0
  ELSE IF chars[i + 1].char.absoluteIndex = index THEN i + 1
  ELSE FindChar(chars, i + 1, index)

\* getCaretPosition(layout, absoluteIndex, doc)
getCaretPosition(lay, absoluteIndex, d) ==
  LET padding == d.padding * Unit
      defaultMetrics == getFontMetrics(DEFAULT_STYLE)
      found == FindChar(lay.chars, 0, absoluteIndex - 1)
      firstChar == lay.chars[1]
      lastChar == lay.chars[Len(lay.chars)]
  IN  IF Len(lay.chars) = 0
      THEN [x |-> padding, y |-> padding, height |-> (defaultMetrics.height * 14) \div 10]
      ELSE IF absoluteIndex = 0
      THEN [x |-> firstChar.x, y |-> firstChar.y, height |-> firstChar.height]
      ELSE IF found # 0
      THEN [x |-> lay.chars[found].x + lay.chars[found].width, y |-> lay.chars[found].y,
            height |-> lay.chars[found].height]
      ELSE [x |-> lastChar.x + lastChar.width, y |-> lastChar.y, height |-> lastChar.height]

\* The place (1-based) of the entry of lineSelections[i..] (0-based) with
\* key lineIndex, or 0: lineSelections.has / get.
RECURSIVE FindSelection(_, _, _)
FindSelection(lineSelections, i, lineIndex) ==
  IF i >= Len(lineSelections) THEN 0
  ELSE IF lineSelections[i + 1].lineIndex = lineIndex THEN i + 1
  ELSE FindSelection(lineSelections, i + 1, lineIndex)

\* SelectionLoop taking the character at end as selected too.
RECURSIVE SelectionLoopInclusive(_, _, _, _, _)
SelectionLoopInclusive(chars, i, start, end, lineSelections) ==
  IF i >= Len(chars) THEN lineSelections
  ELSE LET char == chars[i + 1]
           charIndex == char.char.absoluteIndex
           at == FindSelection(lineSelections, 0, char.lineIndex)
       IN  IF charIndex >= start /\ charIndex <= end
           THEN IF at = 0
                THEN SelectionLoopInclusive(chars, i + 1, start, end,
                       Append(lineSelections,
                              [lineIndex |-> char.lineIndex, minX |-> char.x,
                               maxX |-> char.x + char.width, y |-> char.y,
                               height |-> char.height]))
                ELSE SelectionLoopInclusive(chars, i + 1, start, end,
                       [lineSelections EXCEPT
                          ![at] = [@ EXCEPT !.minX = Min(@, char.x),
                                            !.maxX = Max(@, char.x + char.width),
                                            !.height = Max(@, char.height)]])
           ELSE SelectionLoopInclusive(chars, i + 1, start, end, lineSelections)

\* The loop of getSelectionBoxes over layout.chars from chars[i] (0-based)
\* on; lineSelections is the Map in insertion order.
RECURSIVE SelectionLoop(_, _, _, _, _)
SelectionLoop(chars, i, start, end, lineSelections) ==
  IF i >= Len(chars) THEN lineSelections
  ELSE LET char == chars[i + 1]
           charIndex == char.char.absoluteIndex
           at == FindSelection(lineSelections, 0, char.lineIndex)
       IN  IF charIndex >= start /\ charIndex < end
           THEN IF at = 0
                THEN SelectionLoop(chars, i + 1, start, end,
                       Append(lineSelections,
                              [lineIndex |-> char.lineIndex, minX |-> char.x,
                               maxX |-> char.x + char.width, y |-> char.y,
                               height |-> char.height]))
                ELSE SelectionLoop(chars, i + 1, start, end,
                       [lineSelections EXCEPT
                          ![at] = [@ EXCEPT !.minX = Min(@, char.x),
                                            !.maxX = Max(@, char.x + char.width),
                                            !.height = Max(@, char.height)]])
           ELSE SelectionLoop(chars, i + 1, start, end, lineSelections)

\* getSelectionBoxes(layout, start, end)
getSelectionBoxes(lay, start, end) ==
  IF start >= end \/ Len(lay.chars) = 0 THEN <<>>
  ELSE LET lineSelections == SelectionLoop(lay.chars, 0, start, end, <<>>)
       IN  [k \in 1..Len(lineSelections) |->
              [x |-> lineSelections[k].minX, y |-> lineSelections[k].y,
               width |-> lineSelections[k].maxX - lineSelections[k].minX,
               height |-> lineSelections[k].height]]

\* ------------------------------------------------------------------------
\* The widget lays out the document it holds in its box and answers hit
\* tests on the layout.
\* ------------------------------------------------------------------------

\* Longest text that is laid out.
MaxText == 4
\* Widest box, in pixels between the paddings.
MaxWidth == 5

LayoutAlphabet == {"a", " ", "\n"}
LayoutTexts == UNION {[1..n -> LayoutAlphabet] : n \in 0..MaxText}
Aligns == {"left", "center", "right", "justify"}

LayoutDocs ==
  {[createDocument(text, NoStyle) EXCEPT !.align = align] :
     text \in LayoutTexts, align \in Aligns}

\* Boxes from one pixel narrower than the two paddings to MaxWidth pixels
\* wider, and a box high enough for every line.
BoxWidths(d) == {(2 * d.padding + w) * Unit : w \in (0 - 1)..MaxWidth}
BoxHeights(d) == {(2 * d.padding + 2 * (MaxText + 1)) * Unit}

\* Pointer positions, pixel by pixel, from left of and above the content to
\* right of and below it.
PointerXs(d) == {(d.padding + k) * Unit : k \in (0 - 1)..(MaxWidth + 1)}
PointerYs(d, lay) == {(d.padding + k) * Unit : k \in (0 - 1)..(2 * Len(lay.lines))}

\* _updateLayout
\* layout and measurementCache after layoutText(d, containerWidth,
\* containerHeight).  Every character but the newlines is measured, in
\* document order; a width measured on a miss is MeasureText of the
\* character and font that make the key, and it is what the cache then
\* holds for that key.
Layout(d, containerWidth, containerHeight) ==
  /\ layout' = layoutText(d, containerWidth, containerHeight)
  /\ measurementCache' = MeasureAll(measurementCache, flattenDocument(d), 0)

UpdateLayout ==
  /\ layout = NoLayout
  /\ UNCHANGED <<doc, call, budget, heap, widget>>
  /\ \E boxWidth \in BoxWidths(doc), boxHeight \in BoxHeights(doc) :
       Layout(doc, boxWidth, boxHeight)

HitTest ==
  /\ layout # NoLayout
  /\ \E x \in PointerXs(doc), y \in PointerYs(doc, layout) :
       Query("hitTest", [NoArgs EXCEPT !.pos = x, !.end = y], hitTest(layout, x, y))

\* A hit test just inside the top left corner of a positioned character
\* (the characters of the layouts are two pixels wide or less, so the probe
\* is 1/Unit pixel inside).
HitTestChar ==
  /\ layout # NoLayout
  /\ \E j \in 1..Len(layout.chars) :
       LET c == layout.chars[j]
       IN  Query("hitTest", [NoArgs EXCEPT !.pos = c.x + 1, !.end = c.y + 1],
                 hitTest(layout, c.x + 1, c.y + 1))

\* The widget asks where the caret of an offset is.
GetCaretPosition ==
  /\ layout # NoLayout
  /\ \E pos \in Offsets(doc) :
       Query("getCaretPosition", [NoArgs EXCEPT !.pos = pos], getCaretPosition(layout, pos, doc))

InitLayout ==
  /\ doc \in LayoutDocs
  /\ call = NoCall
  /\ budget = 1
  /\ heap = NoHeap
  /\ layout = NoLayout
  /\ measurementCache = NoCache
  /\ NoWidget

NextLayout ==
  \/ UpdateLayout
  \/ HitTest
  \/ HitTestChar
  \/ GetCaretPosition

SpecLayout == InitLayout /\ [][NextLayout]_vars

\* Box heights, pixel by pixel, from one padding to two pixels more than
\* the two paddings and the highest content.
AnyHeights(d) == {h * Unit : h \in d.padding..(2 * d.padding + 2 * (MaxText + 1) + 2)}

\* layoutText called with a box of any width and height.
LayoutText ==
  /\ layout = NoLayout
  /\ UNCHANGED <<doc, call, budget, heap, widget>>
  /\ \E containerWidth \in BoxWidths(doc), containerHeight \in AnyHeights(doc) :
       Layout(doc, containerWidth, containerHeight)

\* The empty document laid out in any box and hit anywhere.
InitEmpty ==
  /\ doc = createEmptyDocument
  /\ call = NoCall
  /\ budget = 1
  /\ heap = NoHeap
  /\ layout = NoLayout
  /\ measurementCache = NoCache
  /\ NoWidget

NextEmpty ==
  \/ LayoutText
  \/ HitTest

SpecEmpty == InitEmpty /\ [][NextEmpty]_vars

\* Documents with every vertical alignment, laid out in any box.
VerticalAligns == {"top", "middle", "bottom"}

VerticalDocs ==
  {[createDocument(text, NoStyle) EXCEPT !.verticalAlign = verticalAlign] :
     text \in LayoutTexts, verticalAlign \in VerticalAligns}

InitVertical ==
  /\ doc \in VerticalDocs
  /\ call = NoCall
  /\ budget = 1
  /\ heap = NoHeap
  /\ layout = NoLayout
  /\ measurementCache = NoCache
  /\ NoWidget

NextVertical == LayoutText

SpecVertical == InitVertical /\ [][NextVertical]_vars

\* measureChar(char, style) called by itself.
MeasureChar ==
  \E char \in {"a", "b"}, style \in StylePool :
    /\ call' = [NoCall EXCEPT !.op = "measureChar",
                              !.args = [NoArgs EXCEPT !.text = << char >>, !.style = style],
                              !.val = measureChar(char, style)]
    /\ measurementCache' = CacheSet(measurementCache, char, style)
    /\ UNCHANGED <<doc, budget, heap, layout, widget>>

\* setBoxSize: the document is laid out again, whatever was laid out before.
SetBoxSize ==
  /\ UNCHANGED <<doc, call, budget, heap, widget>>
  /\ \E boxWidth \in BoxWidths(doc), boxHeight \in BoxHeights(doc) :
       Layout(doc, boxWidth, boxHeight)

\* clearMeasurementCache()
ClearMeasurementCache ==
  /\ measurementCache' = NoCache
  /\ UNCHANGED <<doc, call, budget, heap, layout, widget>>

\* Two-letter documents of every pair of styles, measured, laid out and
\* cleared in any order.
InitCache ==
  /\ doc \in {rebuildDocumentFromChars(createEmptyDocument, chars) : chars \in StyledChars(2)}
  /\ call = NoCall
  /\ budget = 1
  /\ heap = NoHeap
  /\ layout = NoLayout
  /\ measurementCache = NoCache
  /\ NoWidget

NextCache ==
  \/ MeasureChar
  \/ SetBoxSize
  \/ ClearMeasurementCache

SpecCache == InitCache /\ [][NextCache]_vars

\* The widget paints the selection: boxes for a pair of offsets of the
\* document.
GetSelectionBoxes ==
  /\ layout # NoLayout
  /\ \E start \in 0..getDocumentLength(doc), end \in 0..getDocumentLength(doc) :
       Query("getSelectionBoxes", [NoArgs EXCEPT !.pos = start, !.end = end],
             getSelectionBoxes(layout, start, end))

NextSelection ==
  \/ UpdateLayout
  \/ GetSelectionBoxes

SpecSelection == InitLayout /\ [][NextSelection]_vars

\* A layout has been computed.
Laid == layout # NoLayout

\* containerWidth - 2 * padding of the layout.
AvailableWidth == layout.width - 2 * doc.padding * Unit

\* The kind of token a character belongs to.
Kind(c) == IF c = "\n" THEN "newline" ELSE IF c = " " \/ c = "\t" THEN "whitespace" ELSE "word"

\* The characters of the line are one token: of one kind and next to each
\* other in the document.
OneToken(line) ==
  /\ Len(line.chars) >= 1
  /\ \A k \in 1..(Len(line.chars) - 1) :
       /\ Kind(line.chars[k].char.char) = Kind(line.chars[k + 1].char.char)
       /\ line.chars[k + 1].char.absoluteIndex = line.chars[k].char.absoluteIndex + 1

RECURSIVE SumPositioned(_, _)
SumPositioned(chars, i) ==
  IF i >= Len(chars) THEN 0 ELSE chars[i + 1].width + SumPositioned(chars, i + 1)

\* The lines on which the character at offset i is placed.
LinesOf(i) ==
  {layout.chars[k].lineIndex :
     k \in {j \in 1..Len(layout.chars) : layout.chars[j].char.absoluteIndex = i}}

\* The width a line records is the sum of its characters' widths.
WidthIsContent ==
  \A k \in 1..Len(layout.lines) :
    layout.lines[k].width = SumPositioned(layout.lines[k].chars, 0)

\* Two neighbouring characters of a word are on the same line.
WordsWhole ==
  LET text == PlainText(doc)
  IN  \A i \in 1..(Len(text) - 1) :
        (Kind(text[i]) = "word" /\ Kind(text[i + 1]) = "word")
          => (LinesOf(i - 1) = LinesOf(i) /\ Cardinality(LinesOf(i)) = 1)

\* The loop passes over the tokens once: the placed characters are in
\* document order and every word character is placed.
TokensTakenOnce ==
  LET text == PlainText(doc)
  IN  /\ \A i \in 1..Len(text) : Kind(text[i]) = "word" => LinesOf(i - 1) # {}
      /\ \A k \in 1..(Len(layout.chars) - 1) :
           layout.chars[k].char.absoluteIndex < layout.chars[k + 1].char.absoluteIndex

\* C18 as stated: every line's content width is at most availableWidth
\* unless the line is exactly one token; no word is split over two lines;
\* the loop makes progress for every container width.
C18_EveryLineFits ==
  Laid =>
    /\ WidthIsContent
    /\ \A k \in 1..Len(layout.lines) :
         layout.lines[k].width > AvailableWidth => OneToken(layout.lines[k])
    /\ WordsWhole
    /\ TokensTakenOnce

\* C18 amended: every line that holds a character has a content width of at
\* most availableWidth unless it is exactly one token; no word is split
\* over two lines; the loop makes progress for every container width.
C18_LineBreaking ==
  Laid =>
    /\ WidthIsContent
    /\ \A k \in 1..Len(layout.lines) :
         (Len(layout.lines[k].chars) > 0 /\ layout.lines[k].width > AvailableWidth)
           => OneToken(layout.lines[k])
    /\ WordsWhole
    /\ TokensTakenOnce

\* C18 witness: one line holds two tokens within the width, and a word too
\* wide for the box is alone on the next line.
C18_Witness ==
  /\ Laid
  /\ Len(layout.lines) = 2
  /\ ~OneToken(layout.lines[1])
  /\ layout.lines[2].width > AvailableWidth
  /\ Len(layout.lines[2].chars) = 2

\* The number of spaces on the line.
SpacesOn(line) ==
  Cardinality({k \in 1..Len(line.chars) : line.chars[k].char.char = " "})

\* Line k (1-based) is the last visual line of its paragraph: no line with
\* characters follows it, or a newline of the document lies between its
\* last character and the first character of the next line.
LastOfParagraph(k) ==
  LET line == layout.lines[k]
      last == line.chars[Len(line.chars)].char.absoluteIndex
      text == PlainText(doc)
  IN  \/ k = Len(layout.lines)
      \/ Len(layout.lines[k + 1].chars) = 0
      \/ \E i \in (last + 1)..(layout.lines[k + 1].chars[1].char.absoluteIndex - 1) :
           text[i + 1] = "\n"

\* The characters of the line start at the padding and follow one another,
\* every space widened by share.
PlacedWithShare(line, share) ==
  /\ line.chars[1].x = doc.padding * Unit
  /\ \A k \in 1..(Len(line.chars) - 1) :
       line.chars[k + 1].x
         = line.chars[k].x + line.chars[k].width
             + (IF line.chars[k].char.char = " " THEN share ELSE 0)

\* C19: with align 'justify', a line that is not the last of its paragraph
\* and has a space has its slack availableWidth - lineWidth, which is not
\* negative, shared equally by its spaces; the last line of every
\* paragraph, ended by a newline or by the end of the document, is placed
\* as if left-aligned.
C19_Justify ==
  (Laid /\ doc.align = "justify") =>
    \A k \in 1..Len(layout.lines) :
      LET line == layout.lines[k]
          slack == AvailableWidth - line.width
      IN  Len(line.chars) > 0 =>
            IF LastOfParagraph(k) \/ SpacesOn(line) = 0
            THEN PlacedWithShare(line, 0)
            ELSE /\ slack >= 0
                 /\ (slack \div SpacesOn(line)) * SpacesOn(line) = slack
                 /\ PlacedWithShare(line, slack \div SpacesOn(line))

\* What layoutText does with align 'justify': the line finalized after the
\* token loop (it holds the last character of the document) is placed as if
\* left-aligned, and so is a line of one character or without a space;
\* every other line, the ones ended by a newline included, has its slack,
\* negative or not, shared by its spaces.
JustifyAllButFinal ==
  (Laid /\ doc.align = "justify") =>
    \A k \in 1..Len(layout.lines) :
      LET line == layout.lines[k]
          text == PlainText(doc)
          final == /\ k = Len(layout.lines)
                   /\ line.chars[Len(line.chars)].char.absoluteIndex = Len(text) - 1
      IN  Len(line.chars) > 0 =>
            IF final \/ SpacesOn(line) = 0 \/ Len(line.chars) = 1
            THEN PlacedWithShare(line, 0)
            ELSE PlacedWithShare(line, (AvailableWidth - line.width) \div SpacesOn(line))

\* The lines (1-based) whose vertical span [y, y + height) holds y.
LinesAt(y) ==
  {k \in 1..Len(layout.lines) :
     y >= layout.lines[k].y /\ y < layout.lines[k].y + layout.lines[k].height}

\* C20: hitTest takes the line whose vertical span holds the pointer's y,
\* the first line when the pointer is above all content and the last line
\* when it is below; on a line with characters it returns the offset of the
\* first character whose midpoint is right of x, else one past the line's
\* last character; the result lies in [0, document length].
C20_HitTest ==
  Called("hitTest") =>
    LET x == Start
        y == End
        n == Len(layout.lines)
        k == IF LinesAt(y) # {} THEN CHOOSE j \in LinesAt(y) : TRUE
             ELSE IF y < layout.lines[1].y THEN 1 ELSE n
        line == layout.lines[k]
        right == {j \in 1..Len(line.chars) : 2 * x < 2 * line.chars[j].x + line.chars[j].width}
        first == CHOOSE j \in right : \A i \in right : j <= i
    IN  /\ call.val >= 0
        /\ call.val <= getDocumentLength(doc)
        /\ Len(layout.chars) > 0 =>
             /\ Cardinality(LinesAt(y)) <= 1
             /\ LinesAt(y) = {} =>
                  (y < layout.lines[1].y \/ y >= layout.lines[n].y + layout.lines[n].height)
             /\ Len(line.chars) > 0 =>
                  call.val = IF right # {} THEN line.chars[first].char.absoluteIndex
                             ELSE line.chars[Len(line.chars)].char.absoluteIndex + 1

\* C20 witness: the pointer is on the second line, at the midpoint of the
\* line's first character, and the offset of the second is returned.
C20_Witness ==
  /\ Called("hitTest")
  /\ LinesAt(End) = {2}
  /\ Len(layout.lines[2].chars) >= 2
  /\ 2 * Start = 2 * layout.lines[2].chars[1].x + layout.lines[2].chars[1].width
  /\ call.val = layout.lines[2].chars[2].char.absoluteIndex

\* The offsets of the newline characters of the document.
NewlineOffsets == {i \in 0..(Len(PlainText(doc)) - 1) : PlainText(doc)[i + 1] = "\n"}

\* Line j (1-based) was finalized by a newline token: it is empty, or the
\* character after its last one is a newline.
EndedByNewline(j) ==
  LET line == layout.lines[j]
      next == line.chars[Len(line.chars)].char.absoluteIndex + 1
  IN  Len(line.chars) = 0 \/ next \in NewlineOffsets

\* The offset of the newline that finalized the empty line k (1-based): the
\* newline tokens finalize the lines in document order.
EndingNewline(k) ==
  LET n == Cardinality({j \in 1..k : EndedByNewline(j)})
  IN  CHOOSE i \in NewlineOffsets : Cardinality({m \in NewlineOffsets : m <= i}) = n

\* The empty line k (1-based) is a source line with no characters: the
\* newline that ends it is the first character of the document or follows
\* another newline.  Its start offset is the offset of that newline.
EmptySourceLine(k) ==
  /\ Len(layout.lines[k].chars) = 0
  /\ Len(layout.chars) > 0
  /\ EndingNewline(k) = 0 \/ (EndingNewline(k) - 1) \in NewlineOffsets

\* C21: hitTest with the pointer on an empty visual line that is a source
\* line with no characters returns the start offset of that source line,
\* in a document that also has non-empty lines.
C21_HitTestEmptyLine ==
  Called("hitTest") =>
    \A k \in LinesAt(End) : EmptySourceLine(k) => call.val = EndingNewline(k)

\* What hitTest returns on an empty line: the offset of the first character
\* placed on a later line, else one past the last placed character; both
\* differ from the start offset of the empty source line.
HitTestEmptyLineNextContent ==
  Called("hitTest") =>
    \A k \in LinesAt(End) :
      EmptySourceLine(k) =>
        LET later == {j \in 1..Len(layout.chars) : layout.chars[j].lineIndex > k - 1}
        IN  /\ call.val # EndingNewline(k)
            /\ call.val = IF later # {}
                          THEN layout.chars[CHOOSE j \in later : \A i \in later : j <= i].char.absoluteIndex
                          ELSE layout.chars[Len(layout.chars)].char.absoluteIndex + 1

\* The positioned characters of the layout.
Positioned == {layout.chars[j] : j \in 1..Len(layout.chars)}

\* C22: for every positioned character c, hitTest just right of and below
\* c's corner returns c's offset, and the caret of c's offset has c's x;
\* also for the first character of a wrapped line and the first character
\* after a newline.
C22_HitTestCaretInverse ==
  /\ Called("hitTest") =>
       \A c \in Positioned :
         (Start = c.x + 1 /\ End = c.y + 1) => call.val = c.char.absoluteIndex
  /\ Called("getCaretPosition") =>
       \A c \in Positioned : c.char.absoluteIndex = Start => call.val.x = c.x

\* The hit-test half of C22 where the characters of a line do not overlap:
\* in a document that is not justified.
HitTestInsideChar ==
  (Called("hitTest") /\ doc.align # "justify") =>
    \A c \in Positioned :
      (Start = c.x + 1 /\ End = c.y + 1) => call.val = c.char.absoluteIndex

\* The caret half of C22 for a character that follows a placed character
\* of its own line, and for the first placed character.
CaretInsideLine ==
  Called("getCaretPosition") =>
    \A j \in 1..Len(layout.chars) :
      LET c == layout.chars[j]
      IN  (/\ c.char.absoluteIndex = Start
           /\ \/ j = 1 /\ Start = 0
              \/ /\ j > 1
                 /\ layout.chars[j - 1].lineIndex = c.lineIndex
                 /\ layout.chars[j - 1].char.absoluteIndex = Start - 1
                 /\ doc.align # "justify")
            => call.val.x = c.x

\* The visual line (1-based) that begins after the newline at offset n: the
\* line after the one that newline finalized.
LineAfterNewline(n) ==
  LET m == Cardinality({i \in NewlineOffsets : i <= n})
      k == CHOOSE j \in 1..Len(layout.lines) :
             EndedByNewline(j) /\ Cardinality({i \in 1..j : EndedByNewline(i)}) = m
  IN  k + 1

\* C27: for an offset whose preceding character is a newline the caret has
\* the y of the visual line that begins after that newline, and the x of
\* the line start, which is the padding in a left-aligned document without
\* list items.
C27_CaretAfterNewline ==
  (Called("getCaretPosition") /\ (Start - 1) \in NewlineOffsets
     /\ LineAfterNewline(Start - 1) <= Len(layout.lines)) =>
    /\ call.val.y = layout.lines[LineAfterNewline(Start - 1)].y
    /\ doc.align = "left" => call.val.x = doc.padding * Unit

\* What getCaretPosition returns after a newline: newlines are not placed,
\* so the search for the preceding character fails and the caret is the
\* right edge of the last placed character of the whole layout, or the
\* padding corner when nothing is placed.
CaretAfterNewlineAtEnd ==
  (Called("getCaretPosition") /\ (Start - 1) \in NewlineOffsets) =>
    IF Len(layout.chars) = 0
    THEN call.val.x = doc.padding * Unit /\ call.val.y = doc.padding * Unit
    ELSE LET lastChar == layout.chars[Len(layout.chars)]
         IN  call.val.x = lastChar.x + lastChar.width /\ call.val.y = lastChar.y

\* The places of the characters of line k (1-based) with an offset in
\* [start, end).
SelectedOn(k, start, end) ==
  {j \in 1..Len(layout.lines[k].chars) :
     /\ layout.lines[k].chars[j].char.absoluteIndex >= start
     /\ layout.lines[k].chars[j].char.absoluteIndex < end}

\* The lines with a character selected by [start, end).
Touched(start, end) == {k \in 1..Len(layout.lines) : SelectedOn(k, start, end) # {}}

\* box spans the selected characters of line k: from their least x to their
\* greatest right edge, at the line's y.
BoxOfLine(box, k, start, end) ==
  LET line == layout.lines[k]
      sel == SelectedOn(k, start, end)
  IN  /\ box.y = line.y
      /\ \E j \in sel : box.x = line.chars[j].x
      /\ \A j \in sel : box.x <= line.chars[j].x
      /\ \E j \in sel : box.x + box.width = line.chars[j].x + line.chars[j].width
      /\ \A j \in sel : box.x + box.width >= line.chars[j].x + line.chars[j].width

\* C23: getSelectionBoxes returns no box when start >= end or nothing is
\* placed; otherwise exactly one box per visual line that has a placed
\* character with an offset in [start, end), in line order, and each box
\* spans from the least x to the greatest right edge of that line's
\* selected characters at the line's y.
C23_SelectionBoxes ==
  Called("getSelectionBoxes") =>
    IF Start >= End \/ Len(layout.chars) = 0 THEN call.val = <<>>
    ELSE /\ Len(call.val) = Cardinality(Touched(Start, End))
         /\ \A k \in Touched(Start, End) :
              LET i == Cardinality({m \in Touched(Start, End) : m <= k})
              IN  BoxOfLine(call.val[i], k, Start, End)

\* C23 witness: a selection over two visual lines that leaves out the first
\* character of the first line.
C23_Witness ==
  /\ Called("getSelectionBoxes")
  /\ Touched(Start, End) = {1, 2}
  /\ 1 \notin SelectedOn(1, Start, End)
  /\ Cardinality(SelectedOn(1, Start, End)) >= 2
  /\ Len(call.val) = 2
  /\ call.val[1].x = layout.lines[1].chars[2].x

\* C24: createEmptyDocument() laid out at any container size has exactly
\* one visual line and no positioned character, and hitTest on that layout
\* returns 0 for every coordinate.
C24_EmptyDocument ==
  (Laid /\ doc = createEmptyDocument) =>
    /\ Len(layout.lines) = 1
    /\ Len(layout.chars) = 0
    /\ Called("hitTest") => call.val = 0

\* C24 witness: the empty document in a box narrower than its paddings, hit
\* right of and below its line.
C24_Witness ==
  /\ doc = createEmptyDocument
  /\ Called("hitTest")
  /\ layout.width < 2 * doc.padding * Unit
  /\ Len(layout.lines) = 1
  /\ Start > doc.padding * Unit
  /\ End >= layout.lines[1].y + layout.lines[1].height

\* The height of the content: the sum of the lines' heights.
RECURSIVE TotalTextHeight(_)
TotalTextHeight(i) ==
  IF i >= Len(layout.lines) THEN 0 ELSE layout.lines[i + 1].height + TotalTextHeight(i + 1)

\* The y of line k (1-based) before the vertical shift: the lines are
\* stacked from the padding.
RECURSIVE StackedY(_)
StackedY(k) == IF k <= 1 THEN doc.padding * Unit ELSE StackedY(k - 1) + layout.lines[k - 1].height

\* Every line and every character is moved down by offset from its stacked
\* place.
ShiftedBy(offset) ==
  \A k \in 1..Len(layout.lines) :
    /\ layout.lines[k].y = StackedY(k) + offset
    /\ \A j \in 1..Len(layout.lines[k].chars) : layout.lines[k].chars[j].y = layout.lines[k].y

\* The common shift of the layout.
VerticalShift == layout.lines[1].y - doc.padding * Unit

\* The bottom edge of the last line.
ContentBottom == layout.lines[Len(layout.lines)].y + layout.lines[Len(layout.lines)].height

\* C28: vertical alignment shifts every line and character by one common
\* offset; with 'middle' and content shorter than the container (it fits
\* between the paddings) the free space above the first line equals the
\* free space below the last line; with 'bottom' the bottom edge of the last
\* line is at containerHeight - padding; content taller than the container
\* is not shifted.
C28_VerticalAlign ==
  Laid =>
    /\ ShiftedBy(VerticalShift)
    /\ (doc.verticalAlign = "middle"
          /\ TotalTextHeight(0) < layout.height - 2 * doc.padding * Unit)
         => layout.lines[1].y = layout.height - ContentBottom
    /\ (doc.verticalAlign = "bottom"
          /\ TotalTextHeight(0) < layout.height - 2 * doc.padding * Unit)
         => ContentBottom = layout.height - doc.padding * Unit
    /\ TotalTextHeight(0) >= layout.height => VerticalShift = 0

\* What layoutText does: one common shift; 'bottom' puts the last line's
\* bottom edge at containerHeight - padding when the content fits between
\* the paddings; 'middle' shifts by half of containerHeight - content -
\* padding when that is positive, which leaves one padding more above the
\* first line than below the last; 'top' and content taller than the
\* container are not shifted.
VerticalAlignAsCoded ==
  Laid =>
    /\ ShiftedBy(VerticalShift)
    /\ VerticalShift >= 0
    /\ doc.verticalAlign = "top" => VerticalShift = 0
    /\ (doc.verticalAlign = "middle" /\ VerticalShift > 0)
         => layout.lines[1].y = layout.height - ContentBottom + doc.padding * Unit
    /\ (doc.verticalAlign = "bottom" /\ VerticalShift > 0)
         => ContentBottom = layout.height - doc.padding * Unit
    /\ TotalTextHeight(0) >= layout.height => VerticalShift = 0

\* The offsets of the positioned characters.
Placed == {c.char.absoluteIndex : c \in Positioned}

\* The offsets a..b are a maximal run of whitespace of the document.
WhitespaceRun(a, b) ==
  LET text == PlainText(doc)
  IN  /\ 0 <= a /\ a <= b /\ b < Len(text)
      /\ \A i \in a..b : Kind(text[i + 1]) = "whitespace"
      /\ a > 0 => Kind(text[a]) # "whitespace"
      /\ b + 1 < Len(text) => Kind(text[b + 2]) # "whitespace"

\* The whitespace run a..b was dropped at a wrap: none of it is placed, the
\* character before it ends a visual line, and the run did not fit on that
\* line.
DroppedAtWrap(a, b) ==
  /\ \A i \in a..b : i \notin Placed
  /\ \E k \in 1..Len(layout.lines) :
       LET line == layout.lines[k]
           chars == flattenDocument(doc)
       IN  /\ Len(line.chars) > 0
           /\ line.chars[Len(line.chars)].char.absoluteIndex = a - 1
           /\ line.width + SumWidths(SubSeq(chars, a + 1, b + 1), 0) > AvailableWidth

\* C26: chars is the concatenation of the lines' characters in line order;
\* offsets increase strictly along chars; a character's lineIndex is the
\* place of its line and its y the line's y; the document characters that
\* are not in chars are the newlines and the whitespace runs dropped at a
\* wrap; no visual line produced by a wrap starts with whitespace.
C26_LayoutResult ==
  Laid =>
    LET text == PlainText(doc)
    IN  /\ layout.chars = FlattenLines(layout.lines, 0)
        /\ \A j \in 1..(Len(layout.chars) - 1) :
             layout.chars[j].char.absoluteIndex < layout.chars[j + 1].char.absoluteIndex
        /\ \A k \in 1..Len(layout.lines) :
             /\ layout.lines[k].lineIndex = k - 1
             /\ \A j \in 1..Len(layout.lines[k].chars) :
                  /\ layout.lines[k].chars[j].lineIndex = k - 1
                  /\ layout.lines[k].chars[j].y = layout.lines[k].y
        /\ \A c \in Positioned :
             /\ c.char.absoluteIndex \in 0..(Len(text) - 1)
             /\ c.char.char = text[c.char.absoluteIndex + 1]
        /\ \A i \in 0..(Len(text) - 1) :
             i \notin Placed =>
               \/ text[i + 1] = "\n"
               \/ \E a \in 0..i, b \in i..(Len(text) - 1) :
                    WhitespaceRun(a, b) /\ DroppedAtWrap(a, b)
        /\ \A k \in 2..Len(layout.lines) :
             (Len(layout.lines[k].chars) > 0 /\ Kind(layout.lines[k].chars[1].char.char) = "whitespace")
               => text[layout.lines[k].chars[1].char.absoluteIndex] = "\n"

\* C26 witness: a whitespace run of two was dropped at a wrap, and the line
\* after it starts with the word that follows.
C26_Witness ==
  /\ Laid
  /\ PlainText(doc) = << "a", " ", " ", "a" >>
  /\ DroppedAtWrap(1, 2)
  /\ Len(layout.lines) = 2
  /\ Placed = {0, 3}
  /\ layout.lines[2].chars[1].char.absoluteIndex = 3

\* Every width the cache holds is the provider's width for its key.
CacheSound ==
  \A key \in DOMAIN measurementCache : measurementCache[key] = MeasureText(key[1], key[2])

getLineIndexForPosition(d, pos) ==
  LET chars == flattenDocument(d)
  IN  Cardinality({i \in 1..Min(pos, Len(chars)) : chars[i].char = "\n"})

\* The loop of getLineStartPosition from i on: it returns at the first i
\* where lineIndex newlines have been passed, and the length otherwise.
RECURSIVE LineStartFrom(_, _, _, _)
LineStartFrom(chars, lineIndex, i, currentLine) ==
  IF i >= Len(chars) THEN i
  ELSE IF currentLine = lineIndex THEN i
  ELSE LineStartFrom(chars, lineIndex, i + 1,
                     IF chars[i + 1].char = "\n" THEN currentLine + 1 ELSE currentLine)

getLineStartPosition(d, lineIndex) == LineStartFrom(flattenDocument(d), lineIndex, 0, 0)

\* The first loop of isLineEmpty from i on: [lineStart, lineEnd) of the
\* line, and lineEnd = 0 when the document has no such line.
RECURSIVE LineBounds(_, _, _, _, _)
LineBounds(chars, lineIndex, i, currentLine, lineStart) ==
  IF i > Len(chars) THEN [lineStart |-> lineStart, lineEnd |-> 0]
  ELSE IF i = Len(chars) \/ chars[i + 1].char = "\n"
       THEN IF currentLine = lineIndex THEN [lineStart |-> lineStart, lineEnd |-> i]
            ELSE LineBounds(chars, lineIndex, i + 1, currentLine + 1, i + 1)
       ELSE LineBounds(chars, lineIndex, i + 1, currentLine, lineStart)

isLineEmpty(d, lineIndex) ==
  LET chars == flattenDocument(d)
      bounds == LineBounds(chars, lineIndex, 0, 0, 0)
  IN  \A i \in bounds.lineStart..(bounds.lineEnd - 1) : chars[i + 1].char \in {" ", "\t"}

\* ------------------------------------------------------------------------
\* RichTextNode: the editing handlers.  A handler takes the widget's
\* document and selection and leaves [document, selection]; the caret blink
\* and the drawing are not part of the state.
\* ------------------------------------------------------------------------

maxHistory == 100

\* _currentStyle: {} at construction and the style at the caret after a
\* caret move; the text of the documents edited here has the default style,
\* so both insert default-styled text.
currentStyle == NoStyle

Caret(pos) == [anchor |-> pos, focus |-> pos]
Edited(d, selection) == [document |-> d, selection |-> selection]

\* The list entries from line `from` on, each moved one line down.
ShiftDown(m, from) ==
  LET kept == {idx \in DOMAIN m : idx < from}
      moved == {idx + 1 : idx \in {j \in DOMAIN m : j >= from}}
  IN  [x \in kept \cup moved |-> IF x \in moved THEN m[x - 1] ELSE m[x]]

insertTextAtCaret(d, selection, text) ==
  LET replaced == replaceSelection(d, selection, text, currentStyle)
  IN  Edited(replaced.doc, Caret(replaced.newPosition))

handleBackspace(d, selection) ==
  LET focus == selection.focus
      currentLineIndex == getLineIndexForPosition(d, focus)
      lineStart == getLineStartPosition(d, currentLineIndex)
      chars == flattenDocument(d)
      replaced == replaceSelection(d, selection, <<>>, currentStyle)
      deleted == deleteRange(d, focus - 1, focus).doc
  IN  IF selection.anchor # selection.focus
      THEN Edited(renumberLists(replaced.doc).doc, Caret(replaced.newPosition))
      ELSE IF MapHas(d.listItems, currentLineIndex) /\ focus = lineStart
      THEN IF d.listItems[currentLineIndex].level > 0
           THEN Edited(renumberLists(outdentListItem(d, currentLineIndex).doc).doc, selection)
           ELSE Edited(renumberLists([d EXCEPT !.listItems =
                                        MapDelete(d.listItems, currentLineIndex)]).doc,
                       selection)
      ELSE IF focus > 0
      THEN IF focus <= Len(chars) /\ chars[focus].char = "\n"
           THEN Edited(renumberLists(removeListItemAtLine(deleted, currentLineIndex).doc).doc,
                       Caret(focus - 1))
           ELSE Edited(deleted, Caret(focus - 1))
      ELSE Edited(d, selection)

handleDelete(d, selection) ==
  LET focus == selection.focus
      chars == flattenDocument(d)
      replaced == replaceSelection(d, selection, <<>>, currentStyle)
      deleted == deleteRange(d, focus, focus + 1).doc
      nextLineIndex == getLineIndexForPosition(d, focus + 1)
  IN  IF selection.anchor # selection.focus
      THEN Edited(renumberLists(replaced.doc).doc, Caret(replaced.newPosition))
      ELSE IF focus < getDocumentLength(d)
      THEN IF chars[focus + 1].char = "\n"
           THEN Edited(renumberLists(removeListItemAtLine(deleted, nextLineIndex).doc).doc,
                       selection)
           ELSE Edited(deleted, selection)
      ELSE Edited(d, selection)

handleEnter(d, selection) ==
  LET currentLineIndex == getLineIndexForPosition(d, selection.focus)
      isListItem == MapHas(d.listItems, currentLineIndex)
      currentListItem == d.listItems[currentLineIndex]
      lineStart == getLineStartPosition(d, currentLineIndex)
      isAtLineStart == selection.focus = lineStart /\ selection.anchor = selection.focus
      before == replaceSelection(d, Caret(lineStart), << "\n" >>, currentStyle).doc
      replaced == replaceSelection(d, selection, << "\n" >>, currentStyle)
      newItem == [type |-> currentListItem.type, level |-> currentListItem.level,
                  index |-> IF currentListItem.type = "number"
                            THEN currentListItem.index + 1 ELSE 0]
  IN  IF isListItem /\ isLineEmpty(d, currentLineIndex)
      THEN Edited([d EXCEPT !.listItems = MapDelete(d.listItems, currentLineIndex)], selection)
      ELSE IF isListItem /\ isAtLineStart
      THEN Edited(renumberLists([before EXCEPT !.listItems =
                     MapSet(ShiftDown(d.listItems, currentLineIndex), currentLineIndex,
                            [currentListItem EXCEPT
                               !.index = IF currentListItem.type = "number"
                                         THEN currentListItem.index ELSE 0])]).doc,
                  Caret(lineStart))
      ELSE IF isListItem
      THEN Edited(renumberLists([replaced.doc EXCEPT !.listItems =
                     MapSet(ShiftDown(replaced.doc.listItems, currentLineIndex + 1),
                            currentLineIndex + 1, newItem)]).doc,
                  Caret(replaced.newPosition))
      ELSE Edited(replaced.doc, Caret(replaced.newPosition))

handleTab(d, selection, shift) ==
  LET currentLineIndex == getLineIndexForPosition(d, selection.focus)
  IN  IF MapHas(d.listItems, currentLineIndex)
      THEN Edited(IF shift THEN outdentListItem(d, currentLineIndex).doc
                  ELSE indentListItem(d, currentLineIndex).doc,
                  selection)
      ELSE insertTextAtCaret(d, selection, << "\t" >>)

\* toggleBulletList and toggleNumberedList
toggleList(d, selection, listType) ==
  LET startLine == getLineIndexForPosition(d, Min(selection.anchor, selection.focus))
      endLine == getLineIndexForPosition(d, Max(selection.anchor, selection.focus))
  IN  Edited(toggleListForLines(d, startLine, endLine, listType).doc, selection)

\* _moveCaret to the left or to the right.
moveCaret(d, selection, direction, extendSelection) ==
  LET collapse == ~extendSelection /\ selection.anchor # selection.focus
      newFocus ==
        IF direction = "left"
        THEN IF collapse THEN Min(selection.anchor, selection.focus)
             ELSE IF selection.focus > 0 THEN selection.focus - 1 ELSE selection.focus
        ELSE IF collapse THEN Max(selection.anchor, selection.focus)
             ELSE IF selection.focus < getDocumentLength(d) THEN selection.focus + 1
                  ELSE selection.focus
  IN  IF extendSelection THEN [selection EXCEPT !.focus = newFocus] ELSE Caret(newFocus)

\* ------------------------------------------------------------------------
\* RichTextNode: the widget.  Its box is the widest box of the layouts.
\* ------------------------------------------------------------------------

boxWidth(d) == (2 * d.padding + MaxWidth) * Unit
boxHeight(d) == (2 * d.padding + 2 * (MaxText + 1)) * Unit

\* history and historyIndex after _pushHistory() of document d and the
\* selection; cloneDocument(d) has the value of d.
PushHistory(d, selection) ==
  LET kept == IF historyIndex < Len(history) - 1
              THEN SubSeq(history, 1, historyIndex + 1) ELSE history
      pushed == Append(kept, Edited(d, selection))
      bounded == IF Len(pushed) > maxHistory THEN Tail(pushed) ELSE pushed
  IN  /\ history' = bounded
      /\ historyIndex' = Len(bounded) - 1

\* call.input and call.args keep the document and the selection the
\* handler started from.
Handled(op) ==
  [NoCall EXCEPT !.op = op, !.input = doc,
                 !.args = [NoArgs EXCEPT !.pos = widgetSelection.anchor,
                                         !.end = widgetSelection.focus]]

\* A handler that ends with _updateLayout(), _render() and _pushHistory().
Handle(op, edited) ==
  /\ budget > 0
  /\ budget' = budget - 1
  /\ call' = [Handled(op) EXCEPT !.out = edited.document]
  /\ doc' = edited.document
  /\ widgetSelection' = edited.selection
  /\ Layout(edited.document, boxWidth(doc), boxHeight(doc))
  /\ PushHistory(edited.document, edited.selection)
  /\ UNCHANGED heap

TypeText ==
  \E char \in {"a", "b"} : Handle("insertText", insertTextAtCaret(doc, widgetSelection, << char >>))

HandleBackspace == Handle("handleBackspace", handleBackspace(doc, widgetSelection))

HandleDelete == Handle("handleDelete", handleDelete(doc, widgetSelection))

HandleEnter == Handle("handleEnter", handleEnter(doc, widgetSelection))

HandleTab ==
  \E shift \in BOOLEAN :
    Handle(IF shift THEN "outdent" ELSE "indent", handleTab(doc, widgetSelection, shift))

ToggleBulletList == Handle("toggleBulletList", toggleList(doc, widgetSelection, "bullet"))

ToggleNumberedList == Handle("toggleNumberedList", toggleList(doc, widgetSelection, "number"))

MoveCaret ==
  \E direction \in {"left", "right"}, extendSelection \in BOOLEAN :
    /\ widgetSelection' = moveCaret(doc, widgetSelection, direction, extendSelection)
    /\ widgetSelection' # widgetSelection
    /\ call' = Handled("moveCaret")
    /\ UNCHANGED <<doc, budget, heap, layout, measurementCache, history, historyIndex>>

\* undo() and redo() with an entry to go to; without one they do nothing.
Restore(op, index) ==
  LET entry == history[index + 1]
  IN  /\ historyIndex' = index
      /\ doc' = entry.document
      /\ widgetSelection' = entry.selection
      /\ Layout(entry.document, boxWidth(doc), boxHeight(doc))
      /\ call' = [Handled(op) EXCEPT !.out = entry.document]
      /\ UNCHANGED <<budget, heap, history>>

Undo ==
  /\ historyIndex > 0
  /\ Restore("undo", historyIndex - 1)

Redo ==
  /\ historyIndex < Len(history) - 1
  /\ Restore("redo", historyIndex + 1)

\* The widget constructed on document d and let to the selection: the
\* constructor lays the document out and pushes the first history entry.
Constructed(d, selection) ==
  /\ doc = d
  /\ call = NoCall
  /\ heap = NoHeap
  /\ measurementCache = MeasureAll(NoCache, flattenDocument(d), 0)
  /\ layout = layoutText(d, boxWidth(d), boxHeight(d))
  /\ widgetSelection = selection
  /\ history = << Edited(d, Caret(0)) >>
  /\ historyIndex = 0

\* Paragraphs of n lines, each empty or "a".
RECURSIVE Paragraphs(_)
Paragraphs(n) ==
  IF n = 1 THEN {<<>>, << "a" >>}
  ELSE {line \o << "\n" >> \o rest : line \in {<<>>, << "a" >>}, rest \in Paragraphs(n - 1)}

\* List maps over the lines of the paragraphs that renumberLists leaves as
\* they are.
NumberedPool == {m \in ListPool : renumberLists([createEmptyDocument EXCEPT !.listItems = m]).doc.listItems = m}

WidgetDocs ==
  {[createDocument(text, NoStyle) EXCEPT !.listItems = m] :
     text \in Paragraphs(MaxLine + 1), m \in NumberedPool}

Selections(d) ==
  {[anchor |-> anchor, focus |-> focus] :
     anchor \in 0..getDocumentLength(d), focus \in 0..getDocumentLength(d)}

\* A widget on a list document, the user about to press one key.
InitList ==
  /\ budget = 1
  /\ \E d \in WidgetDocs : \E selection \in Selections(d) : Constructed(d, selection)

NextList ==
  \/ HandleBackspace
  \/ HandleDelete
  \/ HandleEnter
  \/ HandleTab
  \/ ToggleBulletList
  \/ ToggleNumberedList

SpecList == InitList /\ [][NextList]_vars

\* A new widget on the empty document, the user typing, moving the caret,
\* undoing and redoing.
InitHistory ==
  /\ budget = MaxOps + 1
  /\ Constructed(createEmptyDocument, Caret(0))

NextHistory ==
  \/ TypeText
  \/ HandleBackspace
  \/ MoveCaret
  \/ Undo
  \/ Redo

SpecHistory == InitHistory /\ [][NextHistory]_vars

\* ------------------------------------------------------------------------
\* Lists stay numbered
\* ------------------------------------------------------------------------

ListEditingActions ==
  {"toggleNumberedList", "toggleBulletList", "indent", "outdent", "handleEnter",
   "handleBackspace", "handleDelete"}

\* C29: after every list-editing action of the widget the document equals
\* renumberLists applied to itself.
C29_ListsRenumbered ==
  call.op \in ListEditingActions => doc = renumberLists(doc).doc

\* The handlers that end with renumberLists leave a numbered document:
\* Backspace, Delete, and Enter on a line with text.
RenumberedWhereCalled ==
  (\/ call.op \in {"handleBackspace", "handleDelete"}
   \/ /\ call.op = "handleEnter"
      /\ LET line == getLineIndexForPosition(call.input, call.args.end)
         IN  ~(MapHas(call.input.listItems, line) /\ isLineEmpty(call.input, line)))
  => doc = renumberLists(doc).doc

\* ------------------------------------------------------------------------
\* Undo history
\* ------------------------------------------------------------------------

Edits == {"insertText", "handleBackspace"}

\* historyIndex points into a history of at most maxHistory entries, at the
\* snapshot of the current document.
HistoryBounds ==
  /\ 0 <= historyIndex
  /\ historyIndex < Len(history)
  /\ Len(history) <= maxHistory
  /\ doc = history[historyIndex + 1].document

\* An edit leaves no redo entry.
EditDiscardsRedo ==
  [][call'.op \in Edits => historyIndex' = Len(history') - 1]_vars

\* redo() right after undo() gives back the document undo() started from.
UndoRedoRestoresDocument ==
  [][(call.op = "undo" /\ call'.op = "redo") => doc' = call.input]_vars

\* redo() right after undo() gives back the document and the selection
\* undo() started from.
UndoRedoRestores ==
  (call.op = "undo" /\ call'.op = "redo")
  => /\ doc' = call.input
     /\ widgetSelection' = [anchor |-> call.args.pos, focus |-> call.args.end]

\* C30: after any edits, caret moves, undos and redos, 0 <= historyIndex <
\* history.length <= 100 and the document is the snapshot at historyIndex; an
\* edit after an undo discards every redo entry; an undo immediately followed
\* by a redo restores the document and the selection from before the undo.
C30_History ==
  /\ []HistoryBounds
  /\ [][/\ call'.op \in Edits => historyIndex' = Len(history') - 1
        /\ UndoRedoRestores]_vars

\* An edit after an undo: the redo entry is gone.
EditAfterUndo ==
  /\ call.op \in Edits
  /\ Len(history) = 2
  /\ historyIndex = 1
  /\ budget = MaxOps - 1

====
